---- MODULE Spec2Model ----
(***************************************************************************)
(* State-machine model of AnnotateCanvas (src/annotate_canvas.py): the     *)
(* pan/zoom view transform, the box store with its selection, and the      *)
(* pointer/keyboard interaction handlers.                                   *)
(*                                                                         *)
(* Python floats are modelled as exact rationals <<n, d>> with d > 0 in    *)
(* lowest terms.  Screen points are pairs of integers, image points pairs  *)
(* of rationals.  Box indices are 0-based as in the source; sequences are  *)
(* 1-based, so box i of the source is boxes[i + 1].                        *)
(***************************************************************************)
EXTENDS Integers, Sequences, FiniteSets, TLC

\* ------------------------------------------------------------------ bounds
\* Number of events (handler runs) explored from the initial state.
MaxEvents == 6
\* Number of accepted zoom steps explored (keeps the rationals small).
MaxZooms == 1

\* ------------------------------------------------- rational arithmetic
RECURSIVE GCD(_, _)
GCD(a, b) == IF b = 0 THEN a ELSE GCD(b, a % b)

IAbs(n) == IF n < 0 THEN -n ELSE n

\* n/d in lowest terms, for d > 0
Q(n, d) == LET g == GCD(IAbs(n), d) IN <<n \div g, d \div g>>

I(n) == <<n, 1>>

QAdd(a, b) == Q(a[1] * b[2] + b[1] * a[2], a[2] * b[2])
QSub(a, b) == Q(a[1] * b[2] - b[1] * a[2], a[2] * b[2])
QMul(a, b) == Q(a[1] * b[1], a[2] * b[2])
QDiv(a, b) == IF b[1] > 0 THEN Q(a[1] * b[2], a[2] * b[1])
                          ELSE Q(-(a[1] * b[2]), -(a[2] * b[1]))
QLe(a, b) == a[1] * b[2] <= b[1] * a[2]
QLt(a, b) == a[1] * b[2] < b[1] * a[2]
QAbs(a) == <<IAbs(a[1]), a[2]>>
QMin(a, b) == IF QLe(a, b) THEN a ELSE b
QMax(a, b) == IF QLe(b, a) THEN a ELSE b

\* ------------------------------------------------------ program constants
NoneIdx == -1          \* selected_box = None
NoneBox == <<>>        \* current_box / resize_start_box = None
NonePos == <<>>        \* start_pos / last_mouse_pos / resize_start_pos = None
NoneHandle == ""       \* resize_handle = None
NoPixmap == <<>>       \* base_pixmap = None

\* variant: the image is fitted to the full viewport
FitRatio_full == I(1)

FitRatio == Q(95, 100)         \* 0.95
MinZoom == Q(1, 10)            \* 0.1
MaxZoom == I(10)               \* 10.0
WheelIn == Q(11, 10)           \* 1.1
WheelOut == Q(10, 11)          \* 1/1.1
RightClickOut == Q(10, 12)     \* 1/1.2
HitTol_wide == I(15)           \* variant: a tolerance of 15
HitTol == I(5)                 \* get_box_at_position tolerance
HandlePx == I(8)               \* handle size in screen pixels
MinDraw == I(5)                \* minimum size of a drawn box (exclusive)
MinResize == I(10)             \* minimum size while resizing

\* ------------------------------------------------------------ input sets
\* pointer positions in widget coordinates
Points == {<<10, 10>>, <<25, 15>>, <<40, 40>>}
\* widget sizes delivered by resizeEvent; the first is the initial size
Sizes == {<<40, 40>>, <<80, 60>>}
\* pixmap sizes handed to set_image: one that fits at zoom 2 in the initial
\* widget, and one that is nineteen times as large as the initial widget
Images == {<<19, 19>>, <<760, 760>>}
\* detector results handed to load_boxes
BoxA == <<I(20), I(20), I(70), I(70), "cat (0.90)">>
BoxB == <<I(30), I(30), I(90), I(90), "dog (0.80)">>
BoxC == <<I(0), I(0), I(12), I(12), "cat (0.75)">>
Detections == {<<BoxA, BoxB, BoxC>>}

VARIABLES
  boxes, current_box, selected_box,
  base_pixmap, auto_fit, zoom_level, offset_x, offset_y,
  edit_enabled, draw_mode, is_panning, last_mouse_pos, start_pos,
  resize_handle, resize_start_pos, resize_start_box,
  widget_size,      \* self.width(), self.height()
  left_down,        \* event.buttons() & Qt.LeftButton as the toolkit reports it
  n_events,         \* number of events handled so far (exploration bound)
  n_zooms,          \* number of accepted zoom steps so far (exploration bound)
  heap,             \* the list objects, by identity (CopySpec only)
  self_boxes,       \* the list object self.boxes refers to (CopySpec only)
  host_lists,       \* the list objects the host holds (CopySpec only)
  frame_files,      \* len(FrameController.frame_files) (NavSpec only)
  video_cap,        \* FrameController.video_cap is not None (NavSpec only)
  total_frames,     \* FrameController.total_frames (NavSpec only)
  image_files,      \* len(FrameController.image_files) (NavSpec only)
  current_frame_index,  \* FrameController.current_frame_index (NavSpec only)
  frame_loaded      \* number of frame_loaded signals emitted (NavSpec only)

vars == <<boxes, current_box, selected_box, base_pixmap, auto_fit, zoom_level,
          offset_x, offset_y, edit_enabled, draw_mode, is_panning,
          last_mouse_pos, start_pos, resize_handle, resize_start_pos,
          resize_start_box, widget_size, left_down, n_events, n_zooms,
          heap, self_boxes, host_lists, frame_files, video_cap, total_frames,
          image_files, current_frame_index, frame_loaded>>

storeVars == <<boxes, current_box, selected_box>>
viewVars == <<zoom_level, offset_x, offset_y, auto_fit>>
modeVars == <<edit_enabled, draw_mode>>
panVars == <<is_panning, last_mouse_pos>>
resizeVars == <<resize_handle, resize_start_pos, resize_start_box>>
refVars == <<heap, self_boxes, host_lists>>
navVars == <<frame_files, video_cap, total_frames, image_files,
             current_frame_index, frame_loaded>>

\* Spec and ResizeSpec treat lists as values: object identities are not tracked
NoObjects ==
  /\ heap = <<>>
  /\ self_boxes = 0
  /\ host_lists = {}

InitCanvas ==
  /\ boxes = <<>>
  /\ current_box = NoneBox
  /\ selected_box = NoneIdx
  /\ base_pixmap = NoPixmap
  /\ auto_fit = TRUE
  /\ zoom_level = I(1)
  /\ offset_x = I(0)
  /\ offset_y = I(0)
  /\ edit_enabled = FALSE
  /\ draw_mode = FALSE
  /\ is_panning = FALSE
  /\ last_mouse_pos = NonePos
  /\ start_pos = NonePos
  /\ resize_handle = NoneHandle
  /\ resize_start_pos = NonePos
  /\ resize_start_box = NoneBox
  /\ widget_size = <<40, 40>>
  /\ left_down = FALSE
  /\ n_events = 0
  /\ n_zooms = 0

\* FrameController.__init__: no frame files, no video, no image folder
NoFrames ==
  /\ frame_files = 0
  /\ video_cap = FALSE
  /\ total_frames = 0
  /\ image_files = 0
  /\ current_frame_index = 0
  /\ frame_loaded = 0

Init == InitCanvas /\ NoObjects /\ NoFrames

\* ------------------------------------------------------- view transform
View(z, ox, oy, af) == [zoom |-> z, ox |-> ox, oy |-> oy, af |-> af]
CurView == View(zoom_level, offset_x, offset_y, auto_fit)

\* variant: the pan offset is not subtracted
mapToImagePos_no_offset(p) ==
  <<QDiv(I(p[1]), zoom_level), QDiv(I(p[2]), zoom_level)>>

mapToImagePos(p) ==
  <<QDiv(QSub(I(p[1]), offset_x), zoom_level),
    QDiv(QSub(I(p[2]), offset_y), zoom_level)>>

\* fit_to_window on pixmap pm and widget size ws, from view v
fit_to_window(pm, ws, v) ==
  IF pm = NoPixmap THEN v
  ELSE IF ws[1] <= 0 \/ ws[2] <= 0 THEN v
  ELSE IF pm[1] <= 0 \/ pm[2] <= 0 THEN v
  ELSE LET scale_x == QDiv(QMul(I(ws[1]), FitRatio), I(pm[1]))
           scale_y == QDiv(QMul(I(ws[2]), FitRatio), I(pm[2]))
           z == QMin(scale_x, scale_y)
           scaled_width == QMul(I(pm[1]), z)
           scaled_height == QMul(I(pm[2]), z)
       IN View(z, QDiv(QSub(I(ws[1]), scaled_width), I(2)),
                  QDiv(QSub(I(ws[2]), scaled_height), I(2)), v.af)

\* variant: the image is centred also when it is larger than the widget
constrain_axis_center(off, scaled, widget) == QDiv(QSub(widget, scaled), I(2))

\* one axis of _constrain_view
constrain_axis(off, scaled, widget) ==
  IF QLe(scaled, widget) THEN QDiv(QSub(widget, scaled), I(2))
  ELSE QMax(QMin(off, I(0)), QSub(widget, scaled))

\* variant: the containment step is skipped
constrain_view_off(pm, ws, v) == v

constrain_view(pm, ws, v) ==
  IF pm = NoPixmap THEN v
  ELSE View(v.zoom,
            constrain_axis(v.ox, QMul(I(pm[1]), v.zoom), I(ws[1])),
            constrain_axis(v.oy, QMul(I(pm[2]), v.zoom), I(ws[2])),
            v.af)

\* variant: only the upper limit is tested
ZoomAccepted_no_floor(factor) ==
  LET new_zoom == QMul(zoom_level, factor)
  IN QLe(new_zoom, MaxZoom)

ZoomAccepted(factor) ==
  LET new_zoom == QMul(zoom_level, factor)
  IN QLe(MinZoom, new_zoom) /\ QLe(new_zoom, MaxZoom)

\* variant: an accepted zoom leaves auto_fit as it is
zoom_at_point_keeps_fit(point, factor) ==
  LET image_pos == mapToImagePos(point)
      new_zoom == QMul(zoom_level, factor)
  IN IF ZoomAccepted(factor)
     THEN constrain_view(base_pixmap, widget_size,
            View(new_zoom,
                 QSub(I(point[1]), QMul(image_pos[1], new_zoom)),
                 QSub(I(point[2]), QMul(image_pos[2], new_zoom)),
                 auto_fit))
     ELSE CurView

\* zoom_at_point (and the identical body of wheelEvent)
zoom_at_point(point, factor) ==
  LET image_pos == mapToImagePos(point)
      new_zoom == QMul(zoom_level, factor)
  IN IF ZoomAccepted(factor)
     THEN constrain_view(base_pixmap, widget_size,
            View(new_zoom,
                 QSub(I(point[1]), QMul(image_pos[1], new_zoom)),
                 QSub(I(point[2]), QMul(image_pos[2], new_zoom)),
                 FALSE))
     ELSE CurView

SetView(v) ==
  /\ zoom_level' = v.zoom
  /\ offset_x' = v.ox
  /\ offset_y' = v.oy
  /\ auto_fit' = v.af

\* ------------------------------------------------------------ box store
Left(b) == QMin(b[1], b[3])
Right(b) == QMax(b[1], b[3])
Top(b) == QMin(b[2], b[4])
Bottom(b) == QMax(b[2], b[4])

\* variant: the corners are taken as stored, (x1,y1) as top-left
BoxContains_unnormalized(b, pos) ==
  /\ QLe(QSub(b[1], HitTol), pos[1]) /\ QLe(pos[1], QAdd(b[3], HitTol))
  /\ QLe(QSub(b[2], HitTol), pos[2]) /\ QLe(pos[2], QAdd(b[4], HitTol))

\* the containment test of get_box_at_position for one box
BoxContains(b, pos) ==
  /\ QLe(QSub(Left(b), HitTol), pos[1]) /\ QLe(pos[1], QAdd(Right(b), HitTol))
  /\ QLe(QSub(Top(b), HitTol), pos[2]) /\ QLe(pos[2], QAdd(Bottom(b), HitTol))

RECURSIVE FirstHit(_, _, _)
FirstHit(bs, pos, i) ==
  IF i >= Len(bs) THEN NoneIdx
  ELSE IF BoxContains(bs[i + 1], pos) THEN i
  ELSE FirstHit(bs, pos, i + 1)

\* variant: the topmost (last) box under pos instead of the first
get_box_at_position_last(bs, pos) ==
  LET hits == {i \in 0..(Len(bs) - 1) : BoxContains(bs[i + 1], pos)}
  IN IF hits = {} THEN NoneIdx ELSE CHOOSE i \in hits : \A j \in hits : j <= i

get_box_at_position(bs, pos) == FirstHit(bs, pos, 0)

Near(a, b, tol) == QLe(QAbs(QSub(a, b)), tol)
Mid(a, b) == QDiv(QAdd(a, b), I(2))

get_resize_handle(bs, zoom, pos, box_index) ==
  IF box_index = NoneIdx \/ box_index >= Len(bs) THEN NoneHandle
  ELSE LET b == bs[box_index + 1]
           left == Left(b)
           right == Right(b)
           top == Top(b)
           bottom == Bottom(b)
           handle_size == QDiv(HandlePx, zoom)
           nx(v) == Near(pos[1], v, handle_size)
           ny(v) == Near(pos[2], v, handle_size)
       IN IF nx(left) /\ ny(top) THEN "top-left"
          ELSE IF nx(right) /\ ny(top) THEN "top-right"
          ELSE IF nx(left) /\ ny(bottom) THEN "bottom-left"
          ELSE IF nx(right) /\ ny(bottom) THEN "bottom-right"
          ELSE IF nx(Mid(left, right)) /\ ny(top) THEN "top"
          ELSE IF nx(Mid(left, right)) /\ ny(bottom) THEN "bottom"
          ELSE IF nx(left) /\ ny(Mid(top, bottom)) THEN "left"
          ELSE IF nx(right) /\ ny(Mid(top, bottom)) THEN "right"
          ELSE NoneHandle

\* Python's  'left' in handle  etc.
HasLeft(h) == h \in {"left", "top-left", "bottom-left"}
HasRight(h) == h \in {"right", "top-right", "bottom-right"}
HasTop(h) == h \in {"top", "top-left", "top-right"}
HasBottom(h) == h \in {"bottom", "bottom-left", "bottom-right"}

\* variant: no minimum size is enforced
ResizedBox_no_floor(sb, h, dx, dy) ==
  <<IF HasLeft(h) THEN QAdd(sb[1], dx) ELSE sb[1],
    IF HasTop(h) THEN QAdd(sb[2], dy) ELSE sb[2],
    IF HasRight(h) THEN QAdd(sb[3], dx) ELSE sb[3],
    IF HasBottom(h) THEN QAdd(sb[4], dy) ELSE sb[4],
    sb[5]>>

\* variant: the rebuilt tuple loses the label
ResizedBox_drops_label(sb, h, dx, dy) ==
  LET x1a == IF HasLeft(h) THEN QAdd(sb[1], dx) ELSE sb[1]
      x2a == IF HasRight(h) THEN QAdd(sb[3], dx) ELSE sb[3]
      y1a == IF HasTop(h) THEN QAdd(sb[2], dy) ELSE sb[2]
      y2a == IF HasBottom(h) THEN QAdd(sb[4], dy) ELSE sb[4]
      narrow == QLt(QAbs(QSub(x2a, x1a)), MinResize)
      short == QLt(QAbs(QSub(y2a, y1a)), MinResize)
      x1 == IF narrow /\ HasLeft(h) THEN QSub(x2a, MinResize) ELSE x1a
      x2 == IF narrow /\ ~HasLeft(h) THEN QAdd(x1a, MinResize) ELSE x2a
      y1 == IF short /\ HasTop(h) THEN QSub(y2a, MinResize) ELSE y1a
      y2 == IF short /\ ~HasTop(h) THEN QAdd(y1a, MinResize) ELSE y2a
  IN <<x1, y1, x2, y2, "">>

\* the box computed by resize_box from the snapshot sb, handle h and deltas
ResizedBox(sb, h, dx, dy) ==
  LET x1a == IF HasLeft(h) THEN QAdd(sb[1], dx) ELSE sb[1]
      x2a == IF HasRight(h) THEN QAdd(sb[3], dx) ELSE sb[3]
      y1a == IF HasTop(h) THEN QAdd(sb[2], dy) ELSE sb[2]
      y2a == IF HasBottom(h) THEN QAdd(sb[4], dy) ELSE sb[4]
      narrow == QLt(QAbs(QSub(x2a, x1a)), MinResize)
      short == QLt(QAbs(QSub(y2a, y1a)), MinResize)
      x1 == IF narrow /\ HasLeft(h) THEN QSub(x2a, MinResize) ELSE x1a
      x2 == IF narrow /\ ~HasLeft(h) THEN QAdd(x1a, MinResize) ELSE x2a
      y1 == IF short /\ HasTop(h) THEN QSub(y2a, MinResize) ELSE y1a
      y2 == IF short /\ ~HasTop(h) THEN QAdd(y1a, MinResize) ELSE y2a
  IN <<x1, y1, x2, y2, sb[5]>>

\* variant: the deltas are applied to the box as it is now, not to the snapshot
resize_box_from_current(pos) ==
  IF resize_handle = NoneHandle \/ resize_start_pos = NonePos
     \/ resize_start_box = NoneBox \/ selected_box = NoneIdx
  THEN boxes
  ELSE IF selected_box >= Len(boxes) THEN boxes
  ELSE [boxes EXCEPT ![selected_box + 1] =
          ResizedBox(boxes[selected_box + 1], resize_handle,
                     QSub(pos[1], resize_start_pos[1]),
                     QSub(pos[2], resize_start_pos[2]))]

\* the store after resize_box(pos)
resize_box(pos) ==
  IF resize_handle = NoneHandle \/ resize_start_pos = NonePos
     \/ resize_start_box = NoneBox \/ selected_box = NoneIdx
  THEN boxes
  ELSE IF selected_box >= Len(boxes) THEN boxes
  ELSE [boxes EXCEPT ![selected_box + 1] =
          ResizedBox(resize_start_box, resize_handle,
                     QSub(pos[1], resize_start_pos[1]),
                     QSub(pos[2], resize_start_pos[2]))]

\* the store after moving the selected box by the pointer delta
\* variant: only the first corner follows the pointer
MovedBoxes_first_corner(pos) ==
  IF selected_box < Len(boxes)
  THEN LET dx == QSub(pos[1], start_pos[1])
           dy == QSub(pos[2], start_pos[2])
           b == boxes[selected_box + 1]
       IN [boxes EXCEPT ![selected_box + 1] =
             <<QAdd(b[1], dx), QAdd(b[2], dy), b[3], b[4], b[5]>>]
  ELSE boxes

MovedBoxes(pos) ==
  IF selected_box < Len(boxes)
  THEN LET dx == QSub(pos[1], start_pos[1])
           dy == QSub(pos[2], start_pos[2])
           b == boxes[selected_box + 1]
       IN [boxes EXCEPT ![selected_box + 1] =
             <<QAdd(b[1], dx), QAdd(b[2], dy), QAdd(b[3], dx), QAdd(b[4], dy), b[5]>>]
  ELSE boxes

\* del self.boxes[k]
DelAt(bs, k) == [i \in 1..(Len(bs) - 1) |-> IF i <= k THEN bs[i] ELSE bs[i + 1]]

\* the in-progress box after a pointer move to image position pos
\* variant: the corners are normalized while drawing
DrawUpdate_normalized(cb, pos) ==
  <<QMin(cb[1], pos[1]), QMin(cb[2], pos[2]), QMax(cb[1], pos[1]), QMax(cb[2], pos[2]), cb[5]>>

DrawUpdate(cb, pos) == <<cb[1], cb[2], pos[1], pos[2], cb[5]>>

\* variant: a selected index behind the deleted one is not decremented
SelectedAfterDelete_no_shift(sel, box_index) ==
  IF sel = box_index THEN NoneIdx ELSE sel

\* the selected index after  del self.boxes[box_index]  in delete_box_at_position
SelectedAfterDelete(sel, box_index) ==
  IF sel = box_index THEN NoneIdx
  ELSE IF sel # NoneIdx /\ sel > box_index THEN sel - 1
  ELSE sel

\* variant: >= instead of >
DrawnBoxKept_ge(b) ==
  /\ QLe(MinDraw, QAbs(QSub(b[3], b[1])))
  /\ QLe(MinDraw, QAbs(QSub(b[4], b[2])))

\* whether mouseReleaseEvent keeps the drawn box
DrawnBoxKept(b) ==
  /\ QLt(MinDraw, QAbs(QSub(b[3], b[1])))
  /\ QLt(MinDraw, QAbs(QSub(b[4], b[2])))

\* ------------------------------------------------------------- operations
\* exploration bounds: every handler run is counted, and so is every accepted zoom
Count ==
  /\ n_events < MaxEvents
  /\ n_events' = n_events + 1

Tick == Count /\ UNCHANGED <<refVars, navVars>>

NoZoom == n_zooms' = n_zooms

ZoomStep(point, factor) ==
  /\ IF ZoomAccepted(factor)
     THEN n_zooms < MaxZooms /\ n_zooms' = n_zooms + 1
     ELSE NoZoom
  /\ SetView(zoom_at_point(point, factor))

\* variant: clear_boxes forgets to reset the selection
clear_boxes_effect_keeps_selection ==
  /\ boxes' = <<>>
  /\ selected_box' = selected_box
  /\ current_box' = NoneBox

clear_boxes_effect ==
  /\ boxes' = <<>>
  /\ selected_box' = NoneIdx
  /\ current_box' = NoneBox

\* variant: the box is deleted but the selection still designates its index
delete_selected_box_effect_keeps_selection ==
  IF selected_box # NoneIdx /\ 0 <= selected_box /\ selected_box < Len(boxes)
  THEN /\ boxes' = DelAt(boxes, selected_box)
       /\ selected_box' = selected_box
       /\ current_box' = current_box
  ELSE UNCHANGED storeVars

delete_selected_box_effect ==
  IF selected_box # NoneIdx /\ 0 <= selected_box /\ selected_box < Len(boxes)
  THEN /\ boxes' = DelAt(boxes, selected_box)
       /\ selected_box' = NoneIdx
       /\ current_box' = current_box
  ELSE UNCHANGED storeVars

set_image(pixmap) ==
  /\ Tick /\ NoZoom
  /\ base_pixmap' = pixmap
  /\ SetView(fit_to_window(pixmap, widget_size, View(zoom_level, offset_x, offset_y, TRUE)))
  /\ clear_boxes_effect
  /\ UNCHANGED <<modeVars, panVars, start_pos, resizeVars, widget_size, left_down>>

reset_view ==
  /\ Tick /\ NoZoom
  /\ SetView(fit_to_window(base_pixmap, widget_size,
                           View(zoom_level, offset_x, offset_y, TRUE)))
  /\ UNCHANGED <<storeVars, base_pixmap, modeVars, panVars, start_pos, resizeVars,
                 widget_size, left_down>>

\* variant: a viewport resize always refits and turns auto_fit back on
resizeEvent_refits(size) ==
  /\ Tick /\ NoZoom
  /\ size # widget_size
  /\ widget_size' = size
  /\ SetView(fit_to_window(base_pixmap, size,
                           View(zoom_level, offset_x, offset_y, TRUE)))
  /\ UNCHANGED <<storeVars, base_pixmap, modeVars, panVars, start_pos, resizeVars,
                 left_down>>

resizeEvent(size) ==
  /\ Tick /\ NoZoom
  /\ size # widget_size
  /\ widget_size' = size
  /\ IF auto_fit
     THEN SetView(fit_to_window(base_pixmap, size, CurView))
     ELSE UNCHANGED viewVars
  /\ UNCHANGED <<storeVars, base_pixmap, modeVars, panVars, start_pos, resizeVars,
                 left_down>>

set_edit_enabled(enabled) ==
  /\ Tick /\ NoZoom
  /\ edit_enabled' = enabled
  /\ UNCHANGED <<storeVars, base_pixmap, viewVars, draw_mode, panVars, start_pos,
                 resizeVars, widget_size, left_down>>

set_draw_mode(enabled) ==
  /\ Tick /\ NoZoom
  /\ draw_mode' = enabled
  /\ UNCHANGED <<storeVars, base_pixmap, viewVars, edit_enabled, panVars, start_pos,
                 resizeVars, widget_size, left_down>>

\* variant: the loaded boxes are added to the ones already present
load_boxes_merge(box_list) ==
  /\ Tick /\ NoZoom
  /\ boxes' = boxes \o box_list
  /\ selected_box' = NoneIdx
  /\ current_box' = NoneBox
  /\ UNCHANGED <<base_pixmap, viewVars, modeVars, panVars, start_pos, resizeVars,
                 widget_size, left_down>>

\* variant: the selection survives the replacement of the list
load_boxes_keeps_selection(box_list) ==
  /\ Tick /\ NoZoom
  /\ boxes' = box_list
  /\ selected_box' = selected_box
  /\ current_box' = NoneBox
  /\ UNCHANGED <<base_pixmap, viewVars, modeVars, panVars, start_pos, resizeVars,
                 widget_size, left_down>>

load_boxes(box_list) ==
  /\ Tick /\ NoZoom
  /\ boxes' = box_list
  /\ selected_box' = NoneIdx
  /\ current_box' = NoneBox
  /\ UNCHANGED <<base_pixmap, viewVars, modeVars, panVars, start_pos, resizeVars,
                 widget_size, left_down>>

clear_boxes ==
  /\ Tick /\ NoZoom
  /\ clear_boxes_effect
  /\ UNCHANGED <<base_pixmap, viewVars, modeVars, panVars, start_pos, resizeVars,
                 widget_size, left_down>>

\* pos is an image-space position
delete_box_at_position(pos) ==
  LET box_index == get_box_at_position(boxes, pos)
  IN /\ Tick /\ NoZoom
     /\ IF box_index # NoneIdx
        THEN /\ boxes' = DelAt(boxes, box_index)
             /\ selected_box' = SelectedAfterDelete(selected_box, box_index)
        ELSE UNCHANGED <<boxes, selected_box>>
     /\ UNCHANGED <<current_box, base_pixmap, viewVars, modeVars, panVars, start_pos,
                    resizeVars, widget_size, left_down>>

mousePressEvent(button, p) ==
  /\ Tick
  /\ IF ~edit_enabled /\ button = "right" THEN TRUE ELSE NoZoom
  /\ button = "left" => ~left_down
  /\ left_down' = (left_down \/ button = "left")
  /\ UNCHANGED <<base_pixmap, modeVars, widget_size>>
  /\ IF ~edit_enabled
     THEN IF button = "left"
          THEN /\ is_panning' = TRUE
               /\ last_mouse_pos' = p
               /\ UNCHANGED <<storeVars, viewVars, start_pos, resizeVars>>
          ELSE /\ ZoomStep(p, RightClickOut)
               /\ UNCHANGED <<storeVars, panVars, start_pos, resizeVars>>
     ELSE IF button = "left"
          THEN IF draw_mode
               THEN LET pos == mapToImagePos(p)
                    IN /\ start_pos' = pos
                       /\ selected_box' = NoneIdx
                       /\ current_box' = <<pos[1], pos[2], pos[1], pos[2], "">>
                       /\ UNCHANGED <<boxes, viewVars, panVars, resizeVars>>
               ELSE LET pos == mapToImagePos(p)
                        clicked_box_index == get_box_at_position(boxes, pos)
                        handle == get_resize_handle(boxes, zoom_level, pos, clicked_box_index)
                    IN IF clicked_box_index # NoneIdx
                       THEN /\ selected_box' = clicked_box_index
                            /\ start_pos' = pos
                            /\ resize_handle' = handle
                            /\ IF handle # NoneHandle
                               THEN /\ resize_start_pos' = pos
                                    /\ resize_start_box' = boxes[clicked_box_index + 1]
                               ELSE UNCHANGED <<resize_start_pos, resize_start_box>>
                            /\ UNCHANGED <<boxes, current_box, viewVars, panVars>>
                       ELSE /\ is_panning' = TRUE
                            /\ last_mouse_pos' = p
                            /\ UNCHANGED <<storeVars, viewVars, start_pos, resizeVars>>
          ELSE \* show_context_menu: the user picks an entry or dismisses the menu
               /\ \E choice \in {"dismiss", "delete", "clear"} :
                    CASE choice = "delete" -> delete_selected_box_effect
                      [] choice = "clear" -> clear_boxes_effect
                      [] OTHER -> UNCHANGED storeVars
               /\ UNCHANGED <<viewVars, panVars, start_pos, resizeVars>>

mouseMoveEvent(p) ==
  /\ Tick /\ NoZoom
  /\ UNCHANGED <<base_pixmap, modeVars, widget_size, left_down, selected_box,
                 is_panning, resizeVars>>
  /\ IF is_panning /\ left_down
     THEN /\ SetView(View(zoom_level,
                           QAdd(offset_x, I(p[1] - last_mouse_pos[1])),
                           QAdd(offset_y, I(p[2] - last_mouse_pos[2])),
                           FALSE))
          /\ last_mouse_pos' = p
          /\ UNCHANGED <<boxes, current_box, start_pos>>
     ELSE IF ~edit_enabled
     THEN UNCHANGED <<boxes, current_box, viewVars, last_mouse_pos, start_pos>>
     ELSE LET pos == mapToImagePos(p)
          IN /\ UNCHANGED <<viewVars, last_mouse_pos>>
             /\ IF left_down /\ start_pos # NonePos
                THEN IF draw_mode /\ current_box # NoneBox
                     THEN /\ current_box' = DrawUpdate(current_box, pos)
                          /\ UNCHANGED <<boxes, start_pos>>
                     ELSE IF ~draw_mode /\ selected_box # NoneIdx
                     THEN IF resize_handle # NoneHandle
                          THEN /\ boxes' = resize_box(pos)
                               /\ UNCHANGED <<current_box, start_pos>>
                          ELSE IF selected_box < Len(boxes)
                          THEN /\ boxes' = MovedBoxes(pos)
                               /\ start_pos' = pos
                               /\ UNCHANGED current_box
                          ELSE UNCHANGED <<boxes, current_box, start_pos>>
                     ELSE UNCHANGED <<boxes, current_box, start_pos>>
                ELSE \* only the cursor shape is updated
                     UNCHANGED <<boxes, current_box, start_pos>>

mouseReleaseEvent(button, p) ==
  /\ Tick /\ NoZoom
  /\ button = "left" => left_down
  /\ left_down' = (left_down /\ button # "left")
  /\ UNCHANGED <<base_pixmap, modeVars, widget_size, zoom_level, offset_x, offset_y,
                 last_mouse_pos, start_pos>>
  /\ IF is_panning /\ button = "left"
     THEN /\ is_panning' = FALSE
          /\ auto_fit' = FALSE
          /\ UNCHANGED <<storeVars, resizeVars>>
     ELSE IF ~edit_enabled
     THEN UNCHANGED <<storeVars, resizeVars, is_panning, auto_fit>>
     ELSE IF button = "left"
     THEN IF draw_mode /\ current_box # NoneBox
          THEN /\ IF DrawnBoxKept(current_box)
                  THEN /\ boxes' = Append(boxes, current_box)
                       /\ selected_box' = Len(boxes') - 1
                  ELSE UNCHANGED <<boxes, selected_box>>
               /\ current_box' = NoneBox
               /\ UNCHANGED <<resizeVars, is_panning, auto_fit>>
          ELSE /\ resize_handle' = NoneHandle
               /\ resize_start_pos' = NonePos
               /\ resize_start_box' = NoneBox
               /\ UNCHANGED <<storeVars, is_panning, auto_fit>>
     ELSE UNCHANGED <<storeVars, resizeVars, is_panning, auto_fit>>

\* variant: the wheel is ignored while editing is enabled
wheelEvent_view_only(p, delta) ==
  /\ Tick
  /\ IF edit_enabled
     THEN NoZoom /\ UNCHANGED viewVars
     ELSE ZoomStep(p, IF delta > 0 THEN WheelIn ELSE WheelOut)
  /\ UNCHANGED <<storeVars, base_pixmap, modeVars, panVars, start_pos, resizeVars,
                 widget_size, left_down>>

wheelEvent(p, delta) ==
  /\ Tick
  /\ ZoomStep(p, IF delta > 0 THEN WheelIn ELSE WheelOut)
  /\ UNCHANGED <<storeVars, base_pixmap, modeVars, panVars, start_pos, resizeVars,
                 widget_size, left_down>>

\* variant: keyPressEvent without its guard
KeyEditGuard_off == TRUE

\* the guard  if not self.edit_enabled: return  of keyPressEvent
KeyEditGuard == edit_enabled

\* variant: Escape leaves the in-progress box in place
keyPressEvent_escape_keeps_box(key) ==
  /\ Tick /\ NoZoom
  /\ UNCHANGED <<base_pixmap, viewVars, edit_enabled, panVars, start_pos, resizeVars,
                 widget_size, left_down>>
  /\ IF ~KeyEditGuard
     THEN UNCHANGED <<storeVars, draw_mode>>
     ELSE IF key \in {"Delete", "Backspace"}
     THEN delete_selected_box_effect /\ UNCHANGED draw_mode
     ELSE IF key = "Escape"
     THEN /\ draw_mode' = FALSE
          /\ selected_box' = NoneIdx
          /\ UNCHANGED <<boxes, current_box>>
     ELSE UNCHANGED <<storeVars, draw_mode>>

keyPressEvent(key) ==
  /\ Tick /\ NoZoom
  /\ UNCHANGED <<base_pixmap, viewVars, edit_enabled, panVars, start_pos, resizeVars,
                 widget_size, left_down>>
  /\ IF ~KeyEditGuard
     THEN UNCHANGED <<storeVars, draw_mode>>
     ELSE IF key \in {"Delete", "Backspace"}
     THEN delete_selected_box_effect /\ UNCHANGED draw_mode
     ELSE IF key = "Escape"
     THEN /\ draw_mode' = FALSE
          /\ current_box' = NoneBox
          /\ selected_box' = NoneIdx
          /\ UNCHANGED boxes
     ELSE UNCHANGED <<storeVars, draw_mode>>

Buttons == {"left", "right"}
Keys == {"Delete", "Backspace", "Escape"}
WheelDeltas == {120, 0, -120}
\* image-space positions handed to delete_box_at_position
ImagePoints == {<<I(10), I(10)>>, <<I(40), I(40)>>, <<I(80), I(80)>>}

Next ==
  \/ \E enabled \in BOOLEAN : set_edit_enabled(enabled)
  \/ \E enabled \in BOOLEAN : set_draw_mode(enabled)
  \/ \E pixmap \in Images : set_image(pixmap)
  \/ reset_view
  \/ \E size \in Sizes : resizeEvent(size)
  \/ \E box_list \in Detections : load_boxes(box_list)
  \/ clear_boxes
  \/ \E pos \in ImagePoints : delete_box_at_position(pos)
  \/ \E button \in Buttons, p \in Points : mousePressEvent(button, p)
  \/ \E p \in Points : mouseMoveEvent(p)
  \/ \E button \in Buttons, p \in Points : mouseReleaseEvent(button, p)
  \/ \E p \in Points, delta \in WheelDeltas : wheelEvent(p, delta)
  \/ \E key \in Keys : keyPressEvent(key)


Spec == Init /\ [][Next]_vars

get_boxes == boxes

\* ------------------------------------------------- resize gestures
\* Resize gestures in isolation: the canvas right after load_boxes([b]),
\* set_edit_enabled(True) and a left press on a handle of b; the pointer is
\* then dragged, also beyond the widget, and released. The boxes: in either
\* corner order, 8 high, and 9 wide and high as a draw gesture commits it.
Anchors ==
  {<<I(20), I(20), I(70), I(50), "cat (0.90)">>,
   <<I(70), I(50), I(20), I(20), "">>,
   <<I(30), I(30), I(42), I(38), "">>,
   <<I(4), I(4), I(13), I(13), "">>}
PressPoints ==
  {<<20, 20>>, <<45, 20>>, <<70, 20>>, <<20, 35>>, <<70, 35>>,
   <<20, 50>>, <<45, 50>>, <<70, 50>>, <<30, 30>>, <<42, 38>>,
   <<18, 9>>, <<9, 18>>, <<27, 18>>}
DragPoints ==
  {<<0, 0>>, <<15, 15>>, <<20, 20>>, <<25, 25>>, <<45, 40>>, <<75, 55>>, <<90, 70>>}

\* the views a resize gesture starts in: the initial view of the 80x60 widget
\* without an image, and the 19x19 image fitted into the 40x40 widget by
\* set_image (zoom 2, handle tolerance 4)
ResizeViews ==
  {[pm |-> NoPixmap, ws |-> <<80, 60>>, z |-> I(1), ox |-> I(0), oy |-> I(0)],
   [pm |-> <<19, 19>>, ws |-> <<40, 40>>, z |-> I(2), ox |-> I(1), oy |-> I(1)]}

InitResize ==
  \E v \in ResizeViews, b \in Anchors, p \in PressPoints :
    LET pos == <<QDiv(QSub(I(p[1]), v.ox), v.z), QDiv(QSub(I(p[2]), v.oy), v.z)>>
        clicked_box_index == get_box_at_position(<<b>>, pos)
        handle == get_resize_handle(<<b>>, v.z, pos, clicked_box_index)
    IN /\ clicked_box_index = 0
       /\ handle # NoneHandle
       /\ boxes = <<b>>
       /\ current_box = NoneBox
       /\ selected_box = clicked_box_index
       /\ base_pixmap = v.pm
       /\ auto_fit = TRUE
       /\ zoom_level = v.z
       /\ offset_x = v.ox
       /\ offset_y = v.oy
       /\ edit_enabled = TRUE
       /\ draw_mode = FALSE
       /\ is_panning = FALSE
       /\ last_mouse_pos = NonePos
       /\ start_pos = pos
       /\ resize_handle = handle
       /\ resize_start_pos = pos
       /\ resize_start_box = b
       /\ widget_size = v.ws
       /\ left_down = TRUE
       /\ n_events = 0
       /\ n_zooms = 0
       /\ NoObjects
       /\ NoFrames

NextResize ==
  \/ \E p \in DragPoints : mouseMoveEvent(p)
  \/ \E p \in DragPoints : mouseReleaseEvent("left", p)

ResizeSpec == InitResize /\ [][NextResize]_vars

\* ------------------------------------------------------- list identities
\* The store as Python sees it: self.boxes refers to a list object, and so do
\* the host's variables. heap[i] is the content of list object i.
MaxObjects == 4
MaxLen == 2

\* the lists the host builds itself (a detector result)
HostLists == {<<>>, <<BoxA>>, <<BoxA, BoxB>>}
\* what the host does to a list it holds
ListOps == {"append", "remove", "replace"}

CanvasFrame ==
  UNCHANGED <<base_pixmap, viewVars, modeVars, panVars, start_pos, resizeVars,
              widget_size, left_down, n_zooms, navVars>>

\* self.boxes = []  in __init__
InitCopy ==
  /\ InitCanvas
  /\ NoFrames
  /\ heap = << <<>> >>
  /\ self_boxes = 1
  /\ host_lists = {}

\* the host builds a list of its own
host_new_list(l) ==
  /\ Count /\ CanvasFrame
  /\ Len(heap) < MaxObjects
  /\ heap' = Append(heap, l)
  /\ host_lists' = host_lists \cup {Len(heap) + 1}
  /\ UNCHANGED <<storeVars, self_boxes>>

\* the host appends to, removes from or replaces an element of a list it holds
host_mutate(l, op) ==
  /\ Count /\ CanvasFrame
  /\ l \in host_lists
  /\ CASE op = "append" -> /\ Len(heap[l]) < MaxLen
                           /\ heap' = [heap EXCEPT ![l] = Append(@, BoxC)]
       [] op = "remove" -> /\ Len(heap[l]) > 0
                           /\ heap' = [heap EXCEPT ![l] = Tail(@)]
       [] OTHER -> /\ Len(heap[l]) > 0
                   /\ heap' = [heap EXCEPT ![l] = [@ EXCEPT ![1] = BoxC]]
  /\ boxes' = heap'[self_boxes]
  /\ UNCHANGED <<current_box, selected_box, self_boxes, host_lists>>

\* variant: load_boxes keeps the caller's list itself
load_boxes_alias(box_list) ==
  /\ Count /\ CanvasFrame
  /\ box_list \in host_lists
  /\ Len(heap) < MaxObjects
  /\ heap' = Append(heap, heap[box_list])
  /\ self_boxes' = box_list
  /\ boxes' = heap'[self_boxes']
  /\ selected_box' = NoneIdx
  /\ current_box' = NoneBox
  /\ UNCHANGED host_lists

\* load_boxes, where box_list is the identity of a list the host holds
load_boxes_ref(box_list) ==
  /\ Count /\ CanvasFrame
  /\ box_list \in host_lists
  /\ Len(heap) < MaxObjects
  /\ heap' = Append(heap, heap[box_list])
  /\ self_boxes' = Len(heap) + 1
  /\ boxes' = heap'[self_boxes']
  /\ selected_box' = NoneIdx
  /\ current_box' = NoneBox
  /\ UNCHANGED host_lists

\* get_boxes: the host receives the identity of the returned list
get_boxes_ref ==
  /\ Count /\ CanvasFrame
  /\ Len(heap) < MaxObjects
  /\ heap' = Append(heap, heap[self_boxes])
  /\ host_lists' = host_lists \cup {Len(heap) + 1}
  /\ UNCHANGED <<storeVars, self_boxes>>

\* clear_boxes binds self.boxes to a new empty list
clear_boxes_ref ==
  /\ Count /\ CanvasFrame
  /\ Len(heap) < MaxObjects
  /\ heap' = Append(heap, <<>>)
  /\ self_boxes' = Len(heap) + 1
  /\ boxes' = <<>>
  /\ selected_box' = NoneIdx
  /\ current_box' = NoneBox
  /\ UNCHANGED host_lists

\* self.boxes.append(...) of a committed draw gesture
canvas_append(b) ==
  /\ Count /\ CanvasFrame
  /\ Len(heap[self_boxes]) < MaxLen
  /\ heap' = [heap EXCEPT ![self_boxes] = Append(@, b)]
  /\ boxes' = heap'[self_boxes]
  /\ selected_box' = Len(boxes') - 1
  /\ UNCHANGED <<current_box, self_boxes, host_lists>>

\* del self.boxes[self.selected_box]  of delete_selected_box
canvas_del ==
  /\ Count /\ CanvasFrame
  /\ selected_box # NoneIdx /\ 0 <= selected_box /\ selected_box < Len(heap[self_boxes])
  /\ heap' = [heap EXCEPT ![self_boxes] = DelAt(@, selected_box)]
  /\ boxes' = heap'[self_boxes]
  /\ selected_box' = NoneIdx
  /\ UNCHANGED <<current_box, self_boxes, host_lists>>

\* self.boxes[self.selected_box] = ...  of a move or resize step
canvas_setitem(b) ==
  /\ Count /\ CanvasFrame
  /\ selected_box # NoneIdx /\ selected_box < Len(heap[self_boxes])
  /\ heap' = [heap EXCEPT ![self_boxes] = [@ EXCEPT ![selected_box + 1] = b]]
  /\ boxes' = heap'[self_boxes]
  /\ UNCHANGED <<current_box, selected_box, self_boxes, host_lists>>

NextCopy ==
  \/ \E l \in HostLists : host_new_list(l)
  \/ \E l \in 1..MaxObjects, op \in ListOps : host_mutate(l, op)
  \/ \E box_list \in 1..MaxObjects : load_boxes_ref(box_list)
  \/ get_boxes_ref
  \/ clear_boxes_ref
  \/ canvas_append(BoxB)
  \/ canvas_del
  \/ canvas_setitem(BoxA)

CopySpec == InitCopy /\ [][NextCopy]_vars

\* ------------------------------------------------------- frame navigation
\* The host's frame controller: three frame sources (extracted frame files, a
\* video read in preview, an image folder), one current index, and the
\* frame_loaded signal, whose slot on_frame_loaded runs inside the emitting call.
MaxFrames == 2

\* number of frames a source can hold
FrameCounts == 0..MaxFrames
\* interval_spinbox.value(): at least 1
Intervals == {1, 2}
\* frame_spinbox.value(): at least 0
Targets == 0..MaxFrames
\* what a frame decodes to: a pixmap, or a null pixmap
Pixmaps == Images \cup {NoPixmap}
\* what the detector returns for a frame when prediction is switched on
Predictions == {<<>>} \cup Detections

\* the index of the frame a controller call emits, or NoFrame when it returns
\* None without emitting
NoFrame == -1

IMin(a, b) == IF a < b THEN a ELSE b
IMax(a, b) == IF a > b THEN a ELSE b

is_preview_mode == video_cap /\ total_frames > 0
is_image_folder_mode == image_files > 0

load_frame(files, index) ==
  IF 0 <= index /\ index < files THEN index ELSE NoFrame

FrameController_previous_frame(interval) ==
  IF frame_files > 0 /\ current_frame_index > 0
  THEN load_frame(frame_files, IMax(0, current_frame_index - interval))
  ELSE NoFrame

FrameController_next_frame(interval) ==
  IF frame_files > 0 /\ current_frame_index < frame_files - 1
  THEN load_frame(frame_files, IMin(frame_files - 1, current_frame_index + interval))
  ELSE NoFrame

FrameController_goto_frame(target_index) ==
  IF frame_files > 0
  THEN load_frame(frame_files, IMax(0, IMin(frame_files - 1, target_index)))
  ELSE NoFrame

\* ret is what VideoCapture.read() reports
read_frame(cap, total, index, ret) ==
  IF ~cap \/ total <= 0 THEN NoFrame
  ELSE IF ret THEN IMax(0, IMin(index, total - 1)) ELSE NoFrame

next_frame_preview(interval, ret) ==
  IF ~video_cap \/ total_frames <= 0 THEN NoFrame
  ELSE read_frame(video_cap, total_frames,
                  IMin(total_frames - 1, current_frame_index + interval), ret)

previous_frame_preview(interval, ret) ==
  IF ~video_cap \/ total_frames <= 0 THEN NoFrame
  ELSE read_frame(video_cap, total_frames,
                  IMax(0, current_frame_index - interval), ret)

\* exists is what os.path.exists(image_path) reports
load_image_from_folder(index, exists) ==
  IF ~is_image_folder_mode THEN NoFrame
  ELSE IF 0 <= index /\ index < image_files /\ exists THEN index ELSE NoFrame

next_image_from_folder(interval, exists) ==
  IF ~is_image_folder_mode THEN NoFrame
  ELSE load_image_from_folder(IMin(image_files - 1, current_frame_index + interval),
                              exists)

previous_image_from_folder(interval, exists) ==
  IF ~is_image_folder_mode THEN NoFrame
  ELSE load_image_from_folder(IMax(0, current_frame_index - interval), exists)

goto_image_from_folder(target_index, exists) ==
  IF ~is_image_folder_mode THEN NoFrame
  ELSE load_image_from_folder(IMax(0, IMin(image_files - 1, target_index)), exists)

\* the slot of frame_loaded: a null pixmap is dropped; otherwise set_image, and
\* load_boxes when the detector returned boxes
on_frame_loaded(pixmap, predicted) ==
  IF pixmap = NoPixmap
  THEN UNCHANGED <<storeVars, base_pixmap, viewVars>>
  ELSE /\ base_pixmap' = pixmap
       /\ SetView(fit_to_window(pixmap, widget_size,
                                View(zoom_level, offset_x, offset_y, TRUE)))
       /\ boxes' = predicted
       /\ selected_box' = NoneIdx
       /\ current_box' = NoneBox

\* what a controller call that yields index does: NoFrame leaves the index at
\* idle and emits nothing; a frame sets the index and emits frame_loaded
Deliver(index, idle, pixmap, predicted) ==
  IF index = NoFrame
  THEN /\ current_frame_index' = idle
       /\ frame_loaded' = frame_loaded
       /\ UNCHANGED <<storeVars, base_pixmap, viewVars>>
  ELSE /\ current_frame_index' = index
       /\ frame_loaded' = frame_loaded + 1
       /\ on_frame_loaded(pixmap, predicted)

\* a host handler leaves the canvas's modes and gestures alone
HostFrame ==
  /\ Count /\ NoZoom
  /\ UNCHANGED <<refVars, modeVars, panVars, start_pos, resizeVars, widget_size,
                 left_down>>

\* on_extraction_finished: the list of extracted frame files is read again
refresh_frame_files(n) ==
  /\ HostFrame
  /\ frame_files' = n
  /\ UNCHANGED <<video_cap, total_frames, image_files, current_frame_index,
                 frame_loaded, storeVars, base_pixmap, viewVars>>

\* select_file in video mode: open_video (with n frames, or failing to open),
\* the frame file list is emptied and read_frame(0) shows the first frame
select_file_video(n, opened, ret, pixmap, predicted) ==
  /\ HostFrame
  /\ image_files' = image_files
  /\ IF opened
     THEN /\ video_cap' = TRUE
          /\ total_frames' = n
          /\ frame_files' = 0
          /\ Deliver(read_frame(TRUE, n, 0, ret), 0, pixmap, predicted)
     ELSE /\ video_cap' = FALSE
          /\ total_frames' = IF video_cap THEN 0 ELSE total_frames
          /\ frame_files' = frame_files
          /\ Deliver(NoFrame, IF video_cap THEN 0 ELSE current_frame_index,
                     pixmap, predicted)

\* select_file in folder mode: open_image_folder (with n images), the frame
\* file list is emptied and load_frame(0) is asked of the emptied list
select_file_folder(n, pixmap, predicted) ==
  /\ HostFrame
  /\ image_files' = n
  /\ video_cap' = video_cap
  /\ IF n = 0
     THEN /\ UNCHANGED <<total_frames, frame_files>>
          /\ Deliver(NoFrame, current_frame_index, pixmap, predicted)
     ELSE /\ total_frames' = n
          /\ frame_files' = 0
          /\ Deliver(load_frame(0, 0), 0, pixmap, predicted)

previous_frame(interval, ok, pixmap, predicted) ==
  /\ HostFrame
  /\ UNCHANGED <<frame_files, video_cap, total_frames, image_files>>
  /\ Deliver(IF is_image_folder_mode THEN previous_image_from_folder(interval, ok)
             ELSE IF is_preview_mode THEN previous_frame_preview(interval, ok)
             ELSE IF frame_files > 0 THEN FrameController_previous_frame(interval)
             ELSE NoFrame,
             current_frame_index, pixmap, predicted)

next_frame(interval, ok, pixmap, predicted) ==
  /\ HostFrame
  /\ UNCHANGED <<frame_files, video_cap, total_frames, image_files>>
  /\ Deliver(IF is_image_folder_mode THEN next_image_from_folder(interval, ok)
             ELSE IF is_preview_mode THEN next_frame_preview(interval, ok)
             ELSE IF frame_files > 0 THEN FrameController_next_frame(interval)
             ELSE NoFrame,
             current_frame_index, pixmap, predicted)

goto_frame(target_index, ok, pixmap, predicted) ==
  /\ HostFrame
  /\ UNCHANGED <<frame_files, video_cap, total_frames, image_files>>
  /\ Deliver(IF is_image_folder_mode THEN goto_image_from_folder(target_index, ok)
             ELSE IF is_preview_mode
                  THEN read_frame(video_cap, total_frames, target_index, ok)
             ELSE IF frame_files > 0 THEN FrameController_goto_frame(target_index)
             ELSE NoFrame,
             current_frame_index, pixmap, predicted)

NextNav ==
  \/ \E n \in FrameCounts : refresh_frame_files(n)
  \/ \E n \in FrameCounts, opened, ret \in BOOLEAN, pixmap \in Pixmaps,
        predicted \in Predictions :
       select_file_video(n, opened, ret, pixmap, predicted)
  \/ \E n \in FrameCounts, pixmap \in Pixmaps, predicted \in Predictions :
       select_file_folder(n, pixmap, predicted)
  \/ \E interval \in Intervals, ok \in BOOLEAN, pixmap \in Pixmaps,
        predicted \in Predictions :
       previous_frame(interval, ok, pixmap, predicted)
  \/ \E interval \in Intervals, ok \in BOOLEAN, pixmap \in Pixmaps,
        predicted \in Predictions :
       next_frame(interval, ok, pixmap, predicted)
  \/ \E target_index \in Targets, ok \in BOOLEAN, pixmap \in Pixmaps,
        predicted \in Predictions :
       goto_frame(target_index, ok, pixmap, predicted)
  \/ \E box_list \in Detections : load_boxes(box_list)

NavSpec == Init /\ [][NextNav]_vars

\* ------------------------------------------------------------ exporter
\* long division: the first k decimal digits of rem/d, as an integer
RECURSIVE Digits(_, _, _)
Digits(rem, d, k) ==
  IF k = 0 THEN 0
  ELSE LET t == rem * 10
       IN (t \div d) * 10 ^ (k - 1) + Digits(t % d, d, k - 1)

\* the remainder left after k digits of rem/d
RECURSIVE RemAfter(_, _, _)
RemAfter(rem, d, k) == IF k = 0 THEN rem ELSE RemAfter((rem * 10) % d, d, k - 1)

\* f"{q:.6f}": the value in millionths, rounded to the nearest, with its sign
Fmt6(q) ==
  LET n == IAbs(q[1])
      d == q[2]
      whole == n \div d
      micro == Digits(n % d, d, 6)
      up == IF 2 * RemAfter(n % d, d, 6) >= d THEN 1 ELSE 0
      sign == IF q[1] < 0 THEN -1 ELSE 1
  IN sign * (whole * 1000000 + micro + up)

\* the YOLO line save_prediction_results writes for box, for a frame w wide and
\* h high: class id, centre, width and height, in millionths
yolo_line(box, w, h) ==
  <<0,
    Fmt6(QDiv(QDiv(QAdd(box[1], box[3]), I(2)), I(w))),
    Fmt6(QDiv(QDiv(QAdd(box[2], box[4]), I(2)), I(h))),
    Fmt6(QDiv(QSub(box[3], box[1]), I(w))),
    Fmt6(QDiv(QSub(box[4], box[2]), I(h)))>>

\* ------------------------------------------------------------- the claims
\* steps of the device-input handlers (pointer, wheel, key)
InputEvent ==
  \/ \E button \in Buttons, p \in Points : mousePressEvent(button, p)
  \/ \E p \in Points : mouseMoveEvent(p)
  \/ \E button \in Buttons, p \in Points : mouseReleaseEvent(button, p)
  \/ \E p \in Points, delta \in WheelDeltas : wheelEvent(p, delta)
  \/ \E key \in Keys : keyPressEvent(key)

\* C1: while edit_enabled is false, a pointer, wheel or key event leaves the box
\* list, the selected index and the in-progress box unchanged (and with them
\* the mode flags, the draw/move anchor and the resize snapshot); only the view
\* (zoom_level, offsets, auto_fit) and the panning state may change.
\* (stated contrapositively: a step from a view-only state that changes any of
\* these is not a step of an input handler)
C1_ViewOnlyKeepsBoxes ==
  [][(~edit_enabled /\
      <<boxes, selected_box, current_box, edit_enabled, draw_mode, start_pos,
        resize_handle, resize_start_pos, resize_start_box, base_pixmap,
        widget_size>>' #
      <<boxes, selected_box, current_box, edit_enabled, draw_mode, start_pos,
        resize_handle, resize_start_pos, resize_start_box, base_pixmap,
        widget_size>>)
     => ~InputEvent]_vars

\* C1 witness: edit disabled, boxes loaded and one selected, and a wheel or
\* right-click zoom has changed the view
C1_Witness ==
  /\ ~edit_enabled
  /\ boxes # <<>> /\ selected_box # NoneIdx
  /\ ~auto_fit
  /\ zoom_level # I(1)
  /\ n_zooms = 1

\* C2: at most one of panning, drawing (an in-progress box exists) and resizing
\* (resize_handle is set) is active, in every reachable state.
C2_MutuallyExclusive ==
  /\ ~(is_panning /\ current_box # NoneBox)
  /\ ~(is_panning /\ resize_handle # NoneHandle)
  /\ ~(current_box # NoneBox /\ resize_handle # NoneHandle)

\* C3: set_edit_enabled(False), called in any state, leaves draw_mode false and
\* no interaction in progress (no in-progress box, no resize handle or
\* snapshot, not panning).
C3_DisableEditAborts ==
  [][set_edit_enabled(FALSE) =>
       /\ draw_mode' = FALSE
       /\ current_box' = NoneBox
       /\ resize_handle' = NoneHandle
       /\ resize_start_pos' = NonePos
       /\ resize_start_box' = NoneBox
       /\ is_panning' = FALSE]_vars

\* C4: set_image called while a gesture is in progress aborts the gesture:
\* afterwards is_panning is false, there is no in-progress box and the resize
\* handle and snapshot are cleared.
C4_SetImageAborts ==
  [][((is_panning \/ current_box # NoneBox \/ resize_handle # NoneHandle
       \/ (left_down /\ selected_box # NoneIdx))
      /\ \E pixmap \in Images : set_image(pixmap))
     => /\ is_panning' = FALSE
        /\ current_box' = NoneBox
        /\ resize_handle' = NoneHandle
        /\ resize_start_pos' = NonePos
        /\ resize_start_box' = NoneBox]_vars

\* helpers of the claims, written from the claims' words
AbsDiff(a, b) == QAbs(QSub(a, b))
\* the image-space point under widget point p
ImgX(p) == QDiv(QSub(I(p[1]), offset_x), zoom_level)
ImgY(p) == QDiv(QSub(I(p[2]), offset_y), zoom_level)
\* the corner-normalized rectangle of b, grown by 5 on every side, contains (x, y)
Within5(b, x, y) ==
  /\ QLe(QSub(QMin(b[1], b[3]), I(5)), x) /\ QLe(x, QAdd(QMax(b[1], b[3]), I(5)))
  /\ QLe(QSub(QMin(b[2], b[4]), I(5)), y) /\ QLe(y, QAdd(QMax(b[2], b[4]), I(5)))
HitSet(x, y) == {i \in 0..(Len(boxes) - 1) : Within5(boxes[i + 1], x, y)}
SmallestHit(x, y) == CHOOSE i \in HitSet(x, y) : \A j \in HitSet(x, y) : i <= j
\* a pointer-up that the canvas handles as the end of a draw gesture
DrawReleaseState ==
  edit_enabled /\ draw_mode /\ current_box # NoneBox /\ ~is_panning /\ left_down

\* C5: the pointer-up that ends a draw gesture appends the in-progress box iff
\* |x2-x1| > 5 and |y2-y1| > 5 (strictly), otherwise leaves the store unchanged;
\* either way the in-progress box is gone afterwards.  (10,10)-(12,11) is not
\* kept, (10,10)-(20,20) is.
C5_CommitIffLargerThan5 ==
  [][(DrawReleaseState /\ \E p \in Points : mouseReleaseEvent("left", p)) =>
       /\ boxes' = IF /\ QLt(I(5), AbsDiff(current_box[3], current_box[1]))
                      /\ QLt(I(5), AbsDiff(current_box[4], current_box[2]))
                   THEN Append(boxes, current_box)
                   ELSE boxes
       /\ current_box' = NoneBox
       /\ ~DrawnBoxKept(<<I(10), I(10), I(12), I(11), "">>)
       /\ DrawnBoxKept(<<I(10), I(10), I(20), I(20), "">>)]_vars

\* C5 witness: a draw gesture has just been released with a box that is exactly
\* 5 high (15 x 5): nothing was appended and the in-progress box is gone
C5_Witness ==
  /\ edit_enabled /\ draw_mode /\ ~left_down
  /\ current_box = NoneBox
  /\ boxes = <<>>
  /\ start_pos = <<I(10), I(10)>>
  /\ n_events = 5

\* C6: a committed draw gesture appends exactly one box, last in the store,
\* with the press point and the last pointer point as its corners (not
\* normalized) and an empty label, and selects it; on an empty store get_boxes()
\* is then exactly that one tuple.  While the button is held, a pointer move
\* sets the second corner to the image point under the pointer and nothing
\* changes the first corner or the label.
C6_CommitAppendsDrawnBox ==
  [][/\ (DrawReleaseState /\ Len(boxes') # Len(boxes)
         /\ \E p \in Points : mouseReleaseEvent("left", p))
        => /\ boxes' = Append(boxes, current_box)
           /\ current_box[5] = ""
           /\ selected_box' = Len(boxes') - 1
           /\ (boxes = <<>> => get_boxes' = <<current_box>>)
     /\ \A p \in Points :
          (DrawReleaseState /\ start_pos # NonePos /\ mouseMoveEvent(p))
          => current_box' = <<current_box[1], current_box[2], ImgX(p), ImgY(p), "">>
     /\ (left_down /\ current_box # NoneBox /\ current_box' # NoneBox)
        => /\ current_box'[1] = current_box[1]
           /\ current_box'[2] = current_box[2]
           /\ current_box'[5] = current_box[5]]_vars

\* C6 witness: the store holds exactly one box, drawn right-to-left and
\* bottom-to-top (x1 > x2, y1 > y2), with an empty label, and it is selected
C6_Witness ==
  /\ edit_enabled /\ draw_mode /\ ~left_down /\ current_box = NoneBox
  /\ Len(get_boxes) = 1
  /\ boxes[1][5] = ""
  /\ QLt(boxes[1][3], boxes[1][1]) /\ QLt(boxes[1][4], boxes[1][2])
  /\ selected_box = 0

\* a left press in select mode
SelectPressState == edit_enabled /\ ~draw_mode /\ ~left_down

\* C7 as stated: a left press in select mode at a point where no box is hit
\* clears the selection and enters panning
C7_MissPressDeselects ==
  [][\A p \in Points :
       (SelectPressState /\ HitSet(ImgX(p), ImgY(p)) = {} /\ mousePressEvent("left", p))
       => (selected_box' = NoneIdx /\ is_panning')]_vars

\* C7 as amended: a left press in select mode at a point where no box is hit
\* enters panning (anchored at the press point) and leaves the selected index
\* and the store unchanged
C7_MissPressPansKeepsSelection ==
  [][\A p \in Points :
       (SelectPressState /\ HitSet(ImgX(p), ImgY(p)) = {} /\ mousePressEvent("left", p))
       => /\ is_panning' /\ last_mouse_pos' = p
          /\ selected_box' = selected_box
          /\ boxes' = boxes /\ current_box' = current_box]_vars

\* C7 witness: panning was entered by a press that hit no box while a box was
\* selected, and the box is still selected
C7_Witness ==
  /\ edit_enabled /\ ~draw_mode /\ left_down /\ is_panning
  /\ selected_box # NoneIdx
  /\ current_box = NoneBox
  /\ last_mouse_pos # NonePos
  /\ HitSet(ImgX(last_mouse_pos), ImgY(last_mouse_pos)) = {}

\* C8: a left press in select mode at a point where the first hit is box i
\* selects i and stores the press point as anchor; with a handle under the
\* pointer it records the handle and a snapshot of box i as it is at the press,
\* it never enters panning or drawing; and a pointer move with the button held,
\* box i selected and no handle translates box i by the pointer's displacement.
C8_HitPressSelects ==
  [][/\ \A p \in Points :
          (SelectPressState /\ HitSet(ImgX(p), ImgY(p)) # {} /\ mousePressEvent("left", p))
          => LET i == SmallestHit(ImgX(p), ImgY(p))
                 h == get_resize_handle(boxes, zoom_level, <<ImgX(p), ImgY(p)>>, i)
             IN /\ selected_box' = i
                /\ start_pos' = <<ImgX(p), ImgY(p)>>
                /\ resize_handle' = h
                /\ h # NoneHandle => /\ resize_start_box' = boxes[i + 1]
                                     /\ resize_start_pos' = <<ImgX(p), ImgY(p)>>
                /\ is_panning' = is_panning
                /\ current_box' = current_box
                /\ boxes' = boxes
     /\ \A q \in Points :
          (/\ edit_enabled /\ ~draw_mode /\ left_down /\ ~is_panning
           /\ selected_box # NoneIdx /\ resize_handle = NoneHandle /\ start_pos # NonePos
           /\ mouseMoveEvent(q))
          => LET dx == QSub(ImgX(q), start_pos[1])
                 dy == QSub(ImgY(q), start_pos[2])
                 b == boxes[selected_box + 1]
             IN /\ Len(boxes') = Len(boxes)
                /\ \A k \in 1..Len(boxes) :
                     boxes'[k] = IF k = selected_box + 1
                                 THEN <<QAdd(b[1], dx), QAdd(b[2], dy),
                                        QAdd(b[3], dx), QAdd(b[4], dy), b[5]>>
                                 ELSE boxes[k]
                /\ selected_box' = selected_box]_vars

\* C8 witness: the press at (40,40), where both the first and the second loaded
\* box are hit, selected the first one, and a move to (25,15) dragged it there
C8_Witness ==
  /\ edit_enabled /\ ~draw_mode /\ left_down /\ ~is_panning
  /\ selected_box = 0 /\ resize_handle = NoneHandle
  /\ boxes = <<<<I(5), I(-5), I(55), I(45), "cat (0.90)">>, BoxB, BoxC>>
  /\ start_pos = <<I(25), I(15)>>

\* C9: a left press in draw mode creates an in-progress box with both corners
\* at the image point under the pointer and an empty label, and leaves the
\* store unchanged
C9_DrawPressStartsBox ==
  [][\A p \in Points :
       (edit_enabled /\ draw_mode /\ ~left_down /\ mousePressEvent("left", p))
       => /\ current_box' = <<ImgX(p), ImgY(p), ImgX(p), ImgY(p), "">>
          /\ boxes' = boxes]_vars

\* C9 witness: a draw gesture has just started on a zoomed and shifted image
\* that already carries boxes
C9_Witness ==
  /\ edit_enabled /\ draw_mode /\ left_down
  /\ zoom_level = I(2) /\ offset_x = I(1)
  /\ boxes # <<>>
  /\ current_box # NoneBox
  /\ current_box[1] = current_box[3] /\ current_box[2] = current_box[4]
  /\ current_box[5] = ""
  /\ start_pos = <<current_box[1], current_box[2]>>

\* the store bs without its element at 0-based index k
Without(bs, k) == SubSeq(bs, 1, k) \o SubSeq(bs, k + 2, Len(bs))

\* C10: deleting the box at index k removes exactly that box and keeps the
\* order of the others; a selection at k is cleared, a selection behind k is
\* decremented and designates the same box, a selection before k is unchanged.
\* From [A,B,C] with selected 2, deleting index 0 gives [B,C] with selected 1.
C10_DeleteReindexes ==
  [][/\ \A pos \in ImagePoints :
          (HitSet(pos[1], pos[2]) # {} /\ delete_box_at_position(pos))
          => LET k == SmallestHit(pos[1], pos[2])
             IN /\ boxes' = Without(boxes, k)
                /\ selected_box = k => selected_box' = NoneIdx
                /\ (selected_box # NoneIdx /\ selected_box > k)
                   => /\ selected_box' = selected_box - 1
                      /\ boxes'[selected_box' + 1] = boxes[selected_box + 1]
                /\ (selected_box = NoneIdx \/ selected_box < k)
                   => selected_box' = selected_box
                /\ (boxes = <<BoxA, BoxB, BoxC>> /\ selected_box = 2 /\ k = 0)
                   => (boxes' = <<BoxB, BoxC>> /\ selected_box' = 1)
     /\ \A key \in {"Delete", "Backspace"} :
          (edit_enabled /\ selected_box # NoneIdx /\ keyPressEvent(key))
          => /\ boxes' = Without(boxes, selected_box)
             /\ selected_box' = NoneIdx]_vars

\* C10 witness: the third of the three loaded boxes was selected and the first
\* one deleted; the selection moved from index 2 to index 1
C10_Witness ==
  /\ boxes = <<BoxB, BoxC>>
  /\ selected_box = 1
  /\ edit_enabled /\ ~draw_mode
  /\ start_pos = <<I(10), I(10)>>

\* C11: load_boxes(L) replaces the store: whatever the state before, afterwards
\* the store is L in the same order, nothing is selected and there is no
\* in-progress box
C11_LoadReplaces ==
  [][\A box_list \in Detections :
       load_boxes(box_list)
       => /\ boxes' = box_list
          /\ \A k \in 1..Len(box_list) : get_boxes'[k] = box_list[k]
          /\ selected_box' = NoneIdx
          /\ current_box' = NoneBox]_vars

\* C11 witness: the detections were loaded in the middle of a draw gesture
\* (button still down): the store is the loaded list, nothing is selected and
\* the in-progress box is gone
C11_Witness ==
  /\ boxes = <<BoxA, BoxB, BoxC>>
  /\ selected_box = NoneIdx /\ current_box = NoneBox
  /\ edit_enabled /\ draw_mode /\ left_down
  /\ start_pos # NonePos

\* the view that fits pixmap pm into widget ws at 95 %, centred
FitZoom(pm, ws) ==
  QMin(QDiv(QMul(I(ws[1]), Q(95, 100)), I(pm[1])),
       QDiv(QMul(I(ws[2]), Q(95, 100)), I(pm[2])))
FitOffset(pmAxis, wsAxis, z) == QDiv(QSub(I(wsAxis), QMul(I(pmAxis), z)), I(2))

\* C12: set_image replaces the base image, sets auto_fit, refits the view to
\* the new image and leaves the store empty, with no selection and no
\* in-progress box
C12_SetImageResets ==
  [][\A pixmap \in Images :
       set_image(pixmap)
       => /\ base_pixmap' = pixmap
          /\ auto_fit'
          /\ zoom_level' = FitZoom(pixmap, widget_size)
          /\ offset_x' = FitOffset(pixmap[1], widget_size[1], zoom_level')
          /\ offset_y' = FitOffset(pixmap[2], widget_size[2], zoom_level')
          /\ boxes' = <<>> /\ get_boxes' = <<>>
          /\ selected_box' = NoneIdx
          /\ current_box' = NoneBox]_vars

\* C12 witness: a new image was set after a box of the previous one had been
\* grabbed by a handle: the view is the fit of the 19x19 image in the 80x60
\* widget and the store is empty
C12_Witness ==
  /\ base_pixmap = <<19, 19>> /\ widget_size = <<80, 60>>
  /\ auto_fit /\ zoom_level = I(3)
  /\ offset_x = Q(23, 2) /\ offset_y = Q(3, 2)
  /\ boxes = <<>> /\ selected_box = NoneIdx /\ current_box = NoneBox
  /\ resize_start_box # NoneBox

\* steps of the handlers that call zoom_at_point or run its body: the wheel,
\* and the right button while editing is disabled
ZoomEvent ==
  \/ \E p \in Points, delta \in WheelDeltas : wheelEvent(p, delta)
  \/ ~edit_enabled /\ \E p \in Points : mousePressEvent("right", p)

\* C13: auto_fit is true right after set_image; a pan move, the end of a pan
\* and a zoom change set it to false; a viewport resize with auto_fit false
\* leaves zoom_level and the offsets unchanged, and one with auto_fit true (and
\* an image) refits the view to the new size
C13_AutoFitPersistence ==
  [][/\ (\E pixmap \in Images : set_image(pixmap)) => auto_fit'
     /\ (is_panning /\ left_down /\ \E p \in Points : mouseMoveEvent(p)) => ~auto_fit'
     /\ (is_panning /\ \E p \in Points : mouseReleaseEvent("left", p)) => ~auto_fit'
     /\ (zoom_level' # zoom_level /\ ZoomEvent) => ~auto_fit'
     /\ \A size \in Sizes :
          resizeEvent(size)
          => IF ~auto_fit
             THEN /\ zoom_level' = zoom_level
                  /\ offset_x' = offset_x /\ offset_y' = offset_y
                  /\ ~auto_fit'
             ELSE base_pixmap # NoPixmap
                  => /\ zoom_level' = FitZoom(base_pixmap, size)
                     /\ offset_x' = FitOffset(base_pixmap[1], size[1], zoom_level')
                     /\ offset_y' = FitOffset(base_pixmap[2], size[2], zoom_level')
                     /\ auto_fit']_vars

\* C13 witness: the 19x19 image was fitted into the 40x40 widget (zoom 2),
\* zoomed in once (zoom 2.2), and the widget then resized to 80x60: the view was
\* not refitted (the fit would be zoom 3)
C13_Witness ==
  /\ base_pixmap = <<19, 19>> /\ widget_size = <<80, 60>>
  /\ ~auto_fit
  /\ zoom_level = Q(22, 10)
  /\ n_zooms = 1

\* C14: zoom_level lies in [0.1, 10.0] in every reachable state
C14_ZoomInBounds ==
  QLe(Q(1, 10), zoom_level) /\ QLe(zoom_level, I(10))

\* what the claim says of a zoom call with factor f
ZoomOutcome(f) ==
  LET target == QMul(zoom_level, f)
  IN IF QLe(Q(1, 10), target) /\ QLe(target, I(10))
     THEN /\ zoom_level' = target
          /\ QLe(Q(1, 10), zoom_level') /\ QLe(zoom_level', I(10))
     ELSE /\ zoom_level' = zoom_level
          /\ offset_x' = offset_x /\ offset_y' = offset_y
          /\ auto_fit' = auto_fit

\* C15: a zoom call (wheel, or right click while editing is disabled) whose
\* product zoom_level * f is outside [0.1, 10.0] changes neither zoom_level nor
\* the offsets nor auto_fit; otherwise zoom_level becomes exactly
\* zoom_level * f, which is inside the range
C15_ZoomRejectedOrExact ==
  [][/\ \A p \in Points, delta \in WheelDeltas :
          wheelEvent(p, delta)
          => ZoomOutcome(IF delta > 0 THEN Q(11, 10) ELSE Q(10, 11))
     /\ \A p \in Points :
          (~edit_enabled /\ mousePressEvent("right", p)) => ZoomOutcome(Q(10, 12))]_vars

\* C15 witness: one right-click zoom-out was accepted from the initial view
C15_Witness ==
  /\ n_zooms = 1
  /\ zoom_level = Q(10, 12)
  /\ ~auto_fit
  /\ base_pixmap = NoPixmap

\* the image-space point under widget point p after the step
ImgXAfter(p) == QDiv(QSub(I(p[1]), offset_x'), zoom_level')
ImgYAfter(p) == QDiv(QSub(I(p[2]), offset_y'), zoom_level')
PointKept(p) == ImgXAfter(p) = ImgX(p) /\ ImgYAfter(p) = ImgY(p)
\* a zoom call at widget point p
ZoomEventAt(p) ==
  \/ \E delta \in WheelDeltas : wheelEvent(p, delta)
  \/ ~edit_enabled /\ mousePressEvent("right", p)

\* C16 as stated: after a zoom call at screen point p the image point under p
\* is the same as before, for every view state, point and factor
C16_ZoomKeepsPoint ==
  [][\A p \in Points : ZoomEventAt(p) => PointKept(p)]_vars

\* on one axis, the image scaled by the new zoom is larger than the viewport and
\* the offset that keeps the image coordinate img under screen coordinate scr
\* lies between viewport - scaled and 0
AxisUnconstrained(scr, img, pmAxis, wsAxis) ==
  LET scaled == QMul(I(pmAxis), zoom_level')
      kept == QSub(I(scr), QMul(img, zoom_level'))
  IN /\ QLt(I(wsAxis), scaled)
     /\ QLe(QSub(I(wsAxis), scaled), kept) /\ QLe(kept, I(0))

\* C16 as amended: after a zoom call at screen point p the image point under p
\* is the same as before when there is no base image, or when on both axes the
\* containment constraint leaves the offset that keeps the point in place
C16_ZoomKeepsPointUnlessConstrained ==
  [][\A p \in Points :
       (/\ ZoomEventAt(p)
        /\ \/ base_pixmap = NoPixmap
           \/ /\ AxisUnconstrained(p[1], ImgX(p), base_pixmap[1], widget_size[1])
              /\ AxisUnconstrained(p[2], ImgY(p), base_pixmap[2], widget_size[2]))
       => PointKept(p)]_vars

\* C16 witness: the 19x19 image, fitted at zoom 2 in the 40x40 widget, was
\* zoomed to 2.2 at (25,15); image point (12,7) is still under (25,15)
C16_Witness ==
  /\ base_pixmap = <<19, 19>> /\ widget_size = <<40, 40>>
  /\ zoom_level = Q(22, 10)
  /\ offset_x = Q(-14, 10) /\ offset_y = Q(-4, 10)
  /\ ImgX(<<25, 15>>) = I(12) /\ ImgY(<<25, 15>>) = I(7)

\* containment on one axis, for the view after the step
AxisContained(off, pmAxis, wsAxis) ==
  LET scaled == QMul(I(pmAxis), zoom_level')
  IN IF QLe(scaled, I(wsAxis))
     THEN off = QDiv(QSub(I(wsAxis), scaled), I(2))
     ELSE QLe(QSub(I(wsAxis), scaled), off) /\ QLe(off, I(0))

\* C17: after every accepted zoom change with a base image, each axis is
\* contained: centred when the scaled image is at most as large as the viewport,
\* otherwise viewport - scaled <= offset <= 0
C17_ZoomContained ==
  [][(base_pixmap # NoPixmap /\ zoom_level' # zoom_level /\ ZoomEvent)
     => /\ AxisContained(offset_x', base_pixmap[1], widget_size[1])
        /\ AxisContained(offset_y', base_pixmap[2], widget_size[2])]_vars

\* C17 witness: the 19x19 image in the 40x40 widget was zoomed from 2 to 2.2 at
\* (10,10), where keeping the point would need offset 0.1: the offsets were
\* clamped to 0
C17_Witness ==
  /\ base_pixmap = <<19, 19>> /\ widget_size = <<40, 40>>
  /\ zoom_level = Q(22, 10)
  /\ offset_x = I(0) /\ offset_y = I(0)
  /\ ~auto_fit

\* image points probed by the hit test: on and just outside the 5-unit margin
\* of the loaded boxes, inside two boxes at once, and far from every box
HitProbes ==
  {<<I(15), I(15)>>, <<I(60), I(60)>>, <<I(76), I(76)>>, <<I(96), I(96)>>,
   <<Q(35, 2), I(10)>>, <<I(-5), I(17)>>, <<I(-6), I(0)>>}
\* the smallest index of store bs whose grown rectangle contains pos, else None
ExpectedHit(bs, pos) ==
  LET hits == {i \in 0..(Len(bs) - 1) : Within5(bs[i + 1], pos[1], pos[2])}
  IN IF hits = {} THEN NoneIdx ELSE CHOOSE i \in hits : \A j \in hits : i <= j
\* the store bs with the two corners of every box exchanged
CornersSwapped(bs) ==
  [k \in 1..Len(bs) |-> <<bs[k][3], bs[k][4], bs[k][1], bs[k][2], bs[k][5]>>]

\* C18: the hit test returns the smallest index whose corner-normalized
\* rectangle grown by 5 image units contains the point, None when there is
\* none, whatever the zoom; the result does not depend on the corner order of
\* the stored boxes; and for [(0,0,100,100,A),(50,50,150,150,B)] at (60,60) it
\* is 0
C18_HitTestFirstMatch ==
  /\ \A pos \in HitProbes :
       /\ get_box_at_position(boxes, pos) = ExpectedHit(boxes, pos)
       /\ get_box_at_position(CornersSwapped(boxes), pos)
            = get_box_at_position(boxes, pos)
  /\ get_box_at_position(<<<<I(0), I(0), I(100), I(100), "A">>,
                           <<I(50), I(50), I(150), I(150), "B">>>>,
                         <<I(60), I(60)>>) = 0

\* C18 witness: the store holds the three loaded boxes and a fourth one drawn
\* from its bottom-right to its top-left corner;
\* (60,60) lies in two boxes and index 0 is returned, (96,96) lies in none
C18_Witness ==
  /\ Len(boxes) = 4
  /\ QLt(boxes[4][3], boxes[4][1]) /\ QLt(boxes[4][4], boxes[4][2])
  /\ Within5(boxes[1], I(60), I(60)) /\ Within5(boxes[2], I(60), I(60))
  /\ get_box_at_position(boxes, <<I(60), I(60)>>) = 0
  /\ get_box_at_position(boxes, <<I(96), I(96)>>) = NoneIdx

\* a pointer move that the canvas handles as a step of a resize gesture
ResizeMoveState ==
  /\ edit_enabled /\ ~draw_mode /\ left_down /\ ~is_panning
  /\ start_pos # NonePos /\ selected_box # NoneIdx
  /\ resize_handle # NoneHandle

\* C19: in a resize with a handle on the right edge, whenever the pointer delta
\* would give x2 - x1 < 10 (zero and negative values included), the resized box
\* has x2 = x1 + 10
C19_RightEdgeFloor ==
  [][\A p \in DragPoints :
       (/\ ResizeMoveState
        /\ resize_handle \in {"right", "top-right", "bottom-right"}
        /\ mouseMoveEvent(p))
       => LET dx == QSub(ImgX(p), resize_start_pos[1])
              x2 == QAdd(resize_start_box[3], dx)
          IN QLt(QSub(x2, resize_start_box[1]), I(10))
             => boxes'[selected_box + 1][3]
                  = QAdd(boxes'[selected_box + 1][1], I(10))]_vars

\* C20: after every resize step the resized box is at least 10 wide and 10
\* high in image space, whatever the handle, the anchor box and the pointer
\* delta
C20_ResizeKeepsMinimum ==
  [][\A p \in DragPoints :
       (ResizeMoveState /\ mouseMoveEvent(p))
       => LET b == boxes'[selected_box + 1]
          IN /\ QLe(I(10), AbsDiff(b[3], b[1]))
             /\ QLe(I(10), AbsDiff(b[4], b[2]))]_vars

\* C20 witness: the right edge of the 50x30 box was dragged from x = 70 to
\* x = 25, which would leave it 5 wide: it is 10 wide
C20_Witness ==
  /\ resize_handle = "right" /\ left_down
  /\ resize_start_box = <<I(20), I(20), I(70), I(50), "cat (0.90)">>
  /\ boxes = <<<<I(20), I(20), I(30), I(50), "cat (0.90)">>>>

\* C21: with edit_enabled, a Delete or Backspace key removes exactly the
\* selected box (the others keep their relative order) and clears the
\* selection; with no selection it changes nothing; with edit_enabled false it
\* changes nothing.
C21_DeleteKeyRemovesSelected ==
  [][\A key \in {"Delete", "Backspace"} :
       keyPressEvent(key)
       => /\ UNCHANGED <<current_box, viewVars, modeVars>>
          /\ IF edit_enabled /\ selected_box # NoneIdx
             THEN /\ selected_box < Len(boxes)
                  /\ Len(boxes') = Len(boxes) - 1
                  /\ \A i \in 1..Len(boxes') :
                       boxes'[i] = boxes[IF i <= selected_box THEN i ELSE i + 1]
                  /\ selected_box' = NoneIdx
             ELSE UNCHANGED <<boxes, selected_box>>]_vars

\* C21 witness: the first of the three loaded boxes was selected by a press at
\* (40,40) and removed while the button was still held
C21_Witness ==
  /\ edit_enabled /\ ~draw_mode
  /\ boxes = <<BoxB, BoxC>>
  /\ selected_box = NoneIdx
  /\ left_down
  /\ start_pos = <<I(40), I(40)>>
  /\ n_events = 4

\* C22: with edit_enabled, an Escape key in any interaction state sets
\* draw_mode to false, discards the in-progress box and clears the selection,
\* and leaves every committed box as it is; with no in-progress box and no
\* selection, as Escape leaves them, the pointer moves and the pointer-up that
\* follow while the button is still held change no box and create none.
C22_EscapeCancels ==
  [][/\ (edit_enabled /\ keyPressEvent("Escape"))
        => /\ draw_mode' = FALSE
           /\ current_box' = NoneBox
           /\ selected_box' = NoneIdx
           /\ boxes' = boxes
     /\ (current_box = NoneBox /\ selected_box = NoneIdx /\ left_down
         /\ \/ \E p \in Points : mouseMoveEvent(p)
            \/ \E p \in Points : mouseReleaseEvent("left", p))
        => (boxes' = boxes /\ current_box' = NoneBox)]_vars

\* C22 witness: Escape was pressed during a draw gesture, the button still held
C22_Witness ==
  /\ edit_enabled /\ ~draw_mode
  /\ left_down /\ ~is_panning
  /\ start_pos # NonePos
  /\ current_box = NoneBox
  /\ selected_box = NoneIdx
  /\ boxes = <<>>
  /\ n_events = 4

\* the factor a wheel event with this delta asks for
WheelFactor(delta) == IF delta > 0 THEN Q(11, 10) ELSE Q(10, 11)

\* the offset on one axis after a zoom to z centred at screen coordinate scr,
\* where img is the image coordinate under scr before the zoom: the offset that
\* keeps img under scr, then the containment constraint when there is an image
WheelOffset(scr, img, z, axis) ==
  LET kept == QSub(I(scr), QMul(img, z))
  IN IF base_pixmap = NoPixmap THEN kept
     ELSE LET scaled == QMul(I(base_pixmap[axis]), z)
              lowest == QSub(I(widget_size[axis]), scaled)
          IN IF QLe(scaled, I(widget_size[axis]))
             THEN QDiv(lowest, I(2))
             ELSE IF QLt(I(0), kept) THEN I(0)
             ELSE IF QLt(kept, lowest) THEN lowest
             ELSE kept

\* C23: a wheel event at p has an effect on the view that is a function of the
\* view, the image, the viewport, p and delta alone, whatever edit_enabled and
\* draw_mode are: it asks for zoom_level*1.1 when delta > 0 and for
\* zoom_level/1.1 for any other delta, centred at p; it never changes the
\* boxes, the selection, the in-progress box or the two mode flags.
C23_WheelIgnoresModes ==
  [][\A p \in Points, delta \in WheelDeltas :
       wheelEvent(p, delta)
       => LET z == QMul(zoom_level, WheelFactor(delta))
          IN /\ UNCHANGED <<boxes, selected_box, current_box, edit_enabled, draw_mode>>
             /\ IF QLe(Q(1, 10), z) /\ QLe(z, I(10))
                THEN /\ zoom_level' = z
                     /\ offset_x' = WheelOffset(p[1], ImgX(p), z, 1)
                     /\ offset_y' = WheelOffset(p[2], ImgY(p), z, 2)
                     /\ auto_fit' = FALSE
                ELSE UNCHANGED viewVars]_vars

\* C23 witness: a draw gesture started at (10,10) under the initial view, and
\* the wheel was turned at (25,15) while the box was in progress
C23_Witness ==
  /\ edit_enabled /\ draw_mode /\ left_down
  /\ current_box = <<I(10), I(10), I(10), I(10), "">>
  /\ base_pixmap = NoPixmap
  /\ zoom_level = Q(11, 10)
  /\ offset_x = Q(-5, 2) /\ offset_y = Q(-3, 2)
  /\ ~auto_fit

\* a move or resize gesture is in progress: the button is held on a selected box
GestureHeld ==
  /\ edit_enabled /\ ~draw_mode
  /\ left_down /\ ~is_panning
  /\ selected_box # NoneIdx
  /\ start_pos # NonePos

\* a step that replaces or empties the list, or deletes the selected box
SelectedBoxRemoved ==
  \/ \E box_list \in Detections : load_boxes(box_list)
  \/ clear_boxes
  \/ \E key \in {"Delete", "Backspace"} : keyPressEvent(key)
  \/ /\ boxes' # boxes
     /\ \E p \in Points : mousePressEvent("right", p)
  \/ \E pos \in ImagePoints :
       /\ HitSet(pos[1], pos[2]) # {}
       /\ SmallestHit(pos[1], pos[2]) = selected_box
       /\ delete_box_at_position(pos)

\* a step that deletes a box other than the selected one
OtherBoxRemoved ==
  \E pos \in ImagePoints :
    /\ HitSet(pos[1], pos[2]) # {}
    /\ SmallestHit(pos[1], pos[2]) # selected_box
    /\ delete_box_at_position(pos)

\* pointer-move and pointer-up events
MoveOrUp ==
  \/ \E p \in Points : mouseMoveEvent(p)
  \/ \E button \in Buttons, p \in Points : mouseReleaseEvent(button, p)

\* the selection, when there is one, is an index of the list after the step
SelectionInRange == selected_box' = NoneIdx \/ (0 <= selected_box' /\ selected_box' < Len(boxes'))

\* without a selection and without a box being drawn, pointer-moves and
\* pointer-ups leave the store alone
NoSelectionNoEffect ==
  (selected_box = NoneIdx /\ ~(draw_mode /\ current_box # NoneBox) /\ MoveOrUp)
  => UNCHANGED <<boxes, selected_box>>

\* C24 as stated: no operation indexes the box list out of range, and a
\* load_boxes, a clear_boxes or any delete that happens during a move or resize
\* gesture leaves the gesture without a box to act on, so that the pointer-moves
\* and the pointer-up that follow modify no box of the new list
C24_StoreChangeEndsGesture ==
  [][/\ SelectionInRange
     /\ (GestureHeld /\ (SelectedBoxRemoved \/ OtherBoxRemoved)) => selected_box' = NoneIdx
     /\ NoSelectionNoEffect]_vars

\* C24 as amended: no operation indexes the box list out of range, and a
\* load_boxes, a clear_boxes or a delete of the selected box that happens during
\* a move or resize gesture leaves the gesture without a box to act on, so that
\* the pointer-moves and the pointer-up that follow modify no box of the new
\* list; after a delete of another box the gesture goes on with the same box
\* at its new index
C24_SelectedBoxRemovalEndsGesture ==
  [][/\ SelectionInRange
     /\ (GestureHeld /\ SelectedBoxRemoved) => selected_box' = NoneIdx
     /\ (GestureHeld /\ OtherBoxRemoved)
        => (selected_box' # NoneIdx /\ boxes'[selected_box' + 1] = boxes[selected_box + 1])
     /\ NoSelectionNoEffect]_vars

\* C24 witness: a resize gesture on the third loaded box was interrupted by
\* load_boxes; the handle and the snapshot are still set, the selection is gone
C24_Witness ==
  /\ edit_enabled /\ ~draw_mode /\ left_down
  /\ resize_handle # NoneHandle
  /\ resize_start_box = BoxC
  /\ selected_box = NoneIdx
  /\ boxes = <<BoxA, BoxB, BoxC>>
  /\ n_events = 4

\* the transform operations: fit_to_window (through reset_view and a viewport
\* resize), wheel zoom, right-click zoom-out and panning
TransformEvent ==
  \/ reset_view
  \/ \E size \in Sizes : resizeEvent(size)
  \/ ZoomEvent
  \/ is_panning /\ \E p \in Points : mouseMoveEvent(p)

\* C25: when no base image is set, every transform operation is a no-op:
\* fit_to_window, wheel zoom, right-click zoom-out and panning leave
\* zoom_level, offset_x and offset_y unchanged
C25_NoImageNoTransform ==
  [][(base_pixmap = NoPixmap /\ TransformEvent)
     => UNCHANGED <<zoom_level, offset_x, offset_y>>]_vars

\* C26: after any left-button pointer-up, in any reachable state, is_panning is
\* false, there is no in-progress box, and resize_handle, resize_start_pos and
\* resize_start_box are cleared; after a pointer-up that ends panning, auto_fit
\* is false
C26_PointerUpResolves ==
  [][\A p \in Points :
       (left_down /\ mouseReleaseEvent("left", p))
       => /\ is_panning' = FALSE
          /\ current_box' = NoneBox
          /\ resize_handle' = NoneHandle
          /\ resize_start_pos' = NonePos
          /\ resize_start_box' = NoneBox
          /\ is_panning => auto_fit' = FALSE]_vars

\* the steps that run fit_to_window
FitStep ==
  \/ reset_view
  \/ auto_fit /\ \E size \in Sizes : resizeEvent(size)
  \/ \E pixmap \in Images : set_image(pixmap)

\* image and viewport sizes with a missing image or a non-positive dimension
DegenerateFits ==
  {<<NoPixmap, <<40, 40>>>>, <<NoPixmap, <<0, 0>>>>,
   <<<<19, 19>>, <<0, 40>>>>, <<<<19, 19>>, <<40, 0>>>>, <<<<19, 19>>, <<-1, 40>>>>,
   <<<<0, 19>>, <<40, 40>>>>, <<<<19, 0>>, <<40, 40>>>>, <<<<0, 0>>, <<0, 0>>>>}

\* C27: fit_to_window with positive viewport and image dimensions sets
\* zoom_level = min(0.95*vw/iw, 0.95*vh/ih) and the offsets (vw - iw*zoom)/2 and
\* (vh - ih*zoom)/2, so that the scaled image lies inside the viewport with
\* equal margins on both sides of each axis; with a missing image or a
\* non-positive dimension it leaves zoom_level and the offsets unchanged
C27_FitToWindow ==
  [][/\ FitStep
        => LET vw == widget_size'[1]
               vh == widget_size'[2]
           IN IF base_pixmap' = NoPixmap
              THEN UNCHANGED <<zoom_level, offset_x, offset_y>>
              ELSE LET iw == base_pixmap'[1]
                       ih == base_pixmap'[2]
                       w == QMul(I(iw), zoom_level')
                       h == QMul(I(ih), zoom_level')
                   IN /\ zoom_level' = QMin(QDiv(QMul(Q(95, 100), I(vw)), I(iw)),
                                            QDiv(QMul(Q(95, 100), I(vh)), I(ih)))
                      /\ offset_x' = QDiv(QSub(I(vw), w), I(2))
                      /\ offset_y' = QDiv(QSub(I(vh), h), I(2))
                      /\ QLe(I(0), offset_x') /\ QLe(QAdd(offset_x', w), I(vw))
                      /\ QLe(I(0), offset_y') /\ QLe(QAdd(offset_y', h), I(vh))
                      /\ QSub(I(vw), QAdd(offset_x', w)) = offset_x'
                      /\ QSub(I(vh), QAdd(offset_y', h)) = offset_y'
     /\ \A d \in DegenerateFits : fit_to_window(d[1], d[2], CurView) = CurView]_vars

\* C27 witness: the 760x760 image fitted into the 80x60 viewport: zoom
\* min(0.1, 0.075) = 0.075, scaled size 57, margins 11.5 and 1.5
C27_Witness ==
  /\ base_pixmap = <<760, 760>> /\ widget_size = <<80, 60>>
  /\ auto_fit
  /\ zoom_level = Q(3, 40)
  /\ offset_x = Q(23, 2) /\ offset_y = Q(3, 2)

\* a pointer move of a move gesture: the button is held on the body of the
\* selected box, outside draw mode and with no handle grabbed
MoveGestureState ==
  /\ edit_enabled /\ ~draw_mode
  /\ left_down /\ ~is_panning
  /\ start_pos # NonePos
  /\ selected_box # NoneIdx
  /\ resize_handle = NoneHandle

\* C28: every pointer move of a move gesture translates both corners of the
\* selected box by the same (dx, dy), the image-space vector from the previous
\* anchor to the pointer, and makes the pointer the new anchor; so the signed
\* width x2-x1, the signed height y2-y1 and the label never change, no other box
\* changes, and each corner keeps its offset from the anchor: the translation
\* accumulated over the gesture is the image-space displacement of the pointer
C28_MoveIsIncremental ==
  [][\A p \in Points :
       (MoveGestureState /\ mouseMoveEvent(p))
       => LET k == selected_box + 1
              b == boxes[k]
              a == boxes'[k]
              dx == QSub(ImgX(p), start_pos[1])
              dy == QSub(ImgY(p), start_pos[2])
          IN /\ k <= Len(boxes)
             /\ a[1] = QAdd(b[1], dx) /\ a[3] = QAdd(b[3], dx)
             /\ a[2] = QAdd(b[2], dy) /\ a[4] = QAdd(b[4], dy)
             /\ start_pos' = <<ImgX(p), ImgY(p)>>
             /\ QSub(a[3], a[1]) = QSub(b[3], b[1])
             /\ QSub(a[4], a[2]) = QSub(b[4], b[2])
             /\ a[5] = b[5]
             /\ QSub(a[1], start_pos'[1]) = QSub(b[1], start_pos[1])
             /\ QSub(a[2], start_pos'[2]) = QSub(b[2], start_pos[2])
             /\ Len(boxes') = Len(boxes)
             /\ \A i \in 1..Len(boxes) : i # k => boxes'[i] = boxes[i]
             /\ selected_box' = selected_box]_vars

\* C28 witness: the first loaded box (20,20,70,70), grabbed at (40,40), was
\* dragged to (10,10), directly or through (25,15): it lies at (-10,-10,40,40),
\* moved by the displacement (-30,-30) of the pointer, and the anchor is (10,10)
C28_Witness ==
  /\ edit_enabled /\ ~draw_mode /\ left_down
  /\ selected_box = 0
  /\ boxes = <<<<I(-10), I(-10), I(40), I(40), "cat (0.90)">>, BoxB, BoxC>>
  /\ start_pos = <<I(10), I(10)>>
  /\ zoom_level = I(1) /\ offset_x = I(0) /\ offset_y = I(0)
  /\ n_events = 5

\* one axis of a resize, from the snapshot's coordinates lo and hi: the edge the
\* handle touches follows the pointer by d; an extent under 10 is then widened
\* to 10 by placing the first coordinate when the handle touches it, the second
\* one otherwise
AxisResized(lo, hi, touchesLo, touchesHi, d) ==
  LET lo1 == IF touchesLo THEN QAdd(lo, d) ELSE lo
      hi1 == IF touchesHi THEN QAdd(hi, d) ELSE hi
  IN IF QLe(I(10), AbsDiff(hi1, lo1)) THEN <<lo1, hi1>>
     ELSE IF touchesLo THEN <<QSub(hi1, I(10)), hi1>>
     ELSE <<lo1, QAdd(lo1, I(10))>>

\* the box a resize gives at image position <<x, y>>, as a function of the
\* snapshot sb, the handle h and the press position sp alone
ResizeResult(sb, h, sp, x, y) ==
  LET xs == AxisResized(sb[1], sb[3], h \in {"left", "top-left", "bottom-left"},
                        h \in {"right", "top-right", "bottom-right"}, QSub(x, sp[1]))
      ys == AxisResized(sb[2], sb[4], h \in {"top", "top-left", "top-right"},
                        h \in {"bottom", "bottom-left", "bottom-right"}, QSub(y, sp[2]))
  IN <<xs[1], ys[1], xs[2], ys[2], sb[5]>>

\* C30: a resize step depends only on the snapshot taken at pointer-down, the
\* grabbed handle and the pointer position: the box after a pointer move to q
\* is the same function of these three whatever the box was before the move,
\* and the move leaves snapshot, handle and press position as they are; a move
\* back to the press position restores the snapshot's coordinates when the
\* snapshot is at least 10 wide and 10 high
C30_ResizePathIndependent ==
  [][\A q \in DragPoints :
       (ResizeMoveState /\ mouseMoveEvent(q))
       => /\ boxes'[selected_box + 1]
               = ResizeResult(resize_start_box, resize_handle, resize_start_pos,
                              ImgX(q), ImgY(q))
          /\ UNCHANGED <<resize_start_box, resize_handle, resize_start_pos>>
          /\ (/\ <<ImgX(q), ImgY(q)>> = resize_start_pos
              /\ QLe(I(10), AbsDiff(resize_start_box[3], resize_start_box[1]))
              /\ QLe(I(10), AbsDiff(resize_start_box[4], resize_start_box[2])))
             => boxes'[selected_box + 1] = resize_start_box]_vars

\* C30 witness: the top-left handle of the box (20,20,70,50) was grabbed at
\* (20,20); after two moves, the second one back to (20,20), the box is the
\* snapshot again
C30_Witness ==
  /\ resize_handle = "top-left" /\ left_down
  /\ resize_start_pos = <<I(20), I(20)>>
  /\ resize_start_box = <<I(20), I(20), I(70), I(50), "cat (0.90)">>
  /\ boxes = <<resize_start_box>>
  /\ n_events = 2

\* a step in which the host changes a list it holds
HostMutation == \E l \in 1..MaxObjects, op \in ListOps : host_mutate(l, op)

\* a step in which the canvas changes or replaces its list
CanvasMutation ==
  \/ canvas_append(BoxB)
  \/ canvas_del
  \/ canvas_setitem(BoxA)
  \/ clear_boxes_ref
  \/ \E box_list \in 1..MaxObjects : load_boxes_ref(box_list)

\* C29: get_boxes() returns a copy and load_boxes(L) stores a copy: the list
\* returned, and L after the call, are objects distinct from the canvas's list
\* with the same content; adding, removing or replacing elements of a list the
\* host holds never changes the canvas's box list, and canvas mutations never
\* change a list the host holds
C29_DefensiveCopies ==
  [][/\ self_boxes' \notin host_lists'
     /\ HostMutation => (boxes' = boxes /\ heap'[self_boxes'] = heap[self_boxes])
     /\ CanvasMutation => \A l \in host_lists : heap'[l] = heap[l]
     /\ (\E box_list \in 1..MaxObjects : load_boxes_ref(box_list))
        => \E box_list \in host_lists : heap'[self_boxes'] = heap[box_list]
     /\ get_boxes_ref
        => \E l \in host_lists' \ host_lists :
             heap'[l] = boxes /\ l # self_boxes']_vars

\* C29 witness: the canvas committed a box, the host took get_boxes() and
\* appended to the returned list; the canvas still holds the one box
C29_Witness ==
  /\ heap = << <<BoxB>>, <<BoxB, BoxC>> >>
  /\ self_boxes = 1
  /\ host_lists = {2}
  /\ boxes = <<BoxB>>
  /\ n_events = 3

\* C31: a pointer move during a move or resize gesture changes only the box at
\* the selected index: the number and order of the boxes, the coordinates of
\* every other box and every label, the selected box's included, are
\* unchanged, and so are zoom_level and the offsets
C31_GestureMoveFrame ==
  [][\A p \in Points :
       (GestureHeld /\ mouseMoveEvent(p))
       => /\ Len(boxes') = Len(boxes)
          /\ \A i \in 1..Len(boxes) :
               /\ i # selected_box + 1 => boxes'[i] = boxes[i]
               /\ boxes'[i][5] = boxes[i][5]
          /\ selected_box' = selected_box
          /\ current_box' = current_box
          /\ zoom_level' = zoom_level
          /\ offset_x' = offset_x /\ offset_y' = offset_y]_vars

\* C31 witness: the third of the three loaded boxes was resized by its
\* bottom-right handle; the two others and its label are as loaded
C31_Witness ==
  /\ left_down /\ edit_enabled /\ ~draw_mode
  /\ resize_handle # NoneHandle
  /\ selected_box = 2
  /\ Len(boxes) = 3
  /\ boxes[1] = BoxA /\ boxes[2] = BoxB
  /\ boxes[3] # BoxC /\ boxes[3][5] = BoxC[5]

\* C32: in every reachable state the selected index is either None or a valid
\* index of the current box list, 0 <= selected < number of boxes
C32_SelectionValid ==
  selected_box = NoneIdx \/ (0 <= selected_box /\ selected_box < Len(boxes))

\* C32 witness: a box drawn by the user was committed behind the three loaded
\* ones and is selected, at index 3 of 4
C32_Witness ==
  /\ Len(boxes) = 4
  /\ SubSeq(boxes, 1, 3) = <<BoxA, BoxB, BoxC>>
  /\ boxes[4][5] = ""
  /\ selected_box = 3
  /\ current_box = NoneBox

\* C33: a resize with an edge-midpoint handle changes only the coordinate of
\* that edge: with the 'top' or 'bottom' handle x1 and x2 of the box stay equal
\* to the snapshot's, with the 'left' or 'right' handle y1 and y2 do, for every
\* snapshot box, also one narrower or shorter than 10 units
C33_MidHandleKeepsOtherAxis ==
  [][\A q \in DragPoints :
       (ResizeMoveState /\ mouseMoveEvent(q))
       => LET b == boxes'[selected_box + 1]
          IN /\ resize_handle \in {"top", "bottom"}
                => (b[1] = resize_start_box[1] /\ b[3] = resize_start_box[3])
             /\ resize_handle \in {"left", "right"}
                => (b[2] = resize_start_box[2] /\ b[4] = resize_start_box[4])]_vars

\* the larger and the smaller of two coordinates
QHi(a, b) == IF QLe(a, b) THEN b ELSE a
QLo(a, b) == IF QLe(a, b) THEN a ELSE b

\* C34: in a resize gesture the edge opposite to the grabbed handle stays where
\* it is, for boxes stored in either corner order: with a handle on the
\* visually left edge, at min(x1,x2), the visually right edge, at max(x1,x2),
\* is fixed, also when the box is stored with x1 > x2; likewise for the right,
\* top and bottom handles
C34_GrabbedEdgeMoves ==
  [][\A q \in DragPoints :
       (ResizeMoveState /\ mouseMoveEvent(q))
       => LET b == boxes'[selected_box + 1]
              sb == resize_start_box
              h == resize_handle
          IN /\ h \in {"left", "top-left", "bottom-left"}
                => QHi(b[1], b[3]) = QHi(sb[1], sb[3])
             /\ h \in {"right", "top-right", "bottom-right"}
                => QLo(b[1], b[3]) = QLo(sb[1], sb[3])
             /\ h \in {"top", "top-left", "top-right"}
                => QHi(b[2], b[4]) = QHi(sb[2], sb[4])
             /\ h \in {"bottom", "bottom-left", "bottom-right"}
                => QLo(b[2], b[4]) = QLo(sb[2], sb[4])]_vars

\* C35: in every reachable state with a base image, at least one of wheel-up
\* (factor 1.1) and wheel-down (factor 1/1.1) is accepted and changes
\* zoom_level
C35_ZoomNeverStuck ==
  base_pixmap # NoPixmap => (ZoomAccepted(WheelIn) \/ ZoomAccepted(WheelOut))

\* on one axis, the scaled image [off, off + size*zoom_level] meets the
\* viewport [0, viewport size]
AxisVisible(off, pmAxis, wsAxis) ==
  /\ QLe(off, I(wsAxis))
  /\ QLe(I(0), QAdd(off, QMul(I(pmAxis), zoom_level)))

\* C36: in every reachable state with a base image (the viewport always has a
\* positive size), part of the scaled image is visible on each axis
C36_ImageVisible ==
  base_pixmap # NoPixmap
  => /\ AxisVisible(offset_x, base_pixmap[1], widget_size[1])
     /\ AxisVisible(offset_y, base_pixmap[2], widget_size[2])

\* C37: for every box get_boxes() can return, the YOLO line of the exporter has
\* width |x2-x1|/w >= 0 and height |y2-y1|/h >= 0, with the centre
\* ((x1+x2)/2/w, (y1+y2)/2/h), also for boxes whose corners are stored
\* unnormalized
C37_YoloNonNegative ==
  base_pixmap # NoPixmap
  => \A i \in 1..Len(get_boxes) :
       LET b == get_boxes[i]
           w == base_pixmap[1]
           h == base_pixmap[2]
           line == yolo_line(b, w, h)
       IN /\ line[4] >= 0 /\ line[5] >= 0
          /\ line[4] = Fmt6(QDiv(AbsDiff(b[3], b[1]), I(w)))
          /\ line[5] = Fmt6(QDiv(AbsDiff(b[4], b[2]), I(h)))
          /\ line[2] = Fmt6(QDiv(QAdd(b[1], b[3]), I(2 * w)))
          /\ line[3] = Fmt6(QDiv(QAdd(b[2], b[4]), I(2 * h)))

\* C38: auto_fit goes from false to true only in a step of set_image or of
\* reset_view; no pointer, wheel, key, mode-setter, load_boxes or
\* viewport-resize event turns it back on
C38_AutoFitOnlyByImageOrReset ==
  [][(~auto_fit /\ auto_fit')
     => (reset_view \/ \E pixmap \in Images : set_image(pixmap))]_vars

\* an accepted zoom had turned auto_fit off, and set_image or reset_view has
\* turned it on again
C38_Witness ==
  /\ auto_fit
  /\ n_zooms = 1
  /\ base_pixmap = <<19, 19>>
  /\ n_events = 3

\* the number of frames of the source the host navigates in
SourceFrames ==
  IF image_files > 0 THEN image_files
  ELSE IF video_cap /\ total_frames > 0 THEN total_frames
  ELSE frame_files

AtLastFrame == SourceFrames > 0 /\ current_frame_index = SourceFrames - 1
AtFirstFrame == SourceFrames > 0 /\ current_frame_index = 0

NavigationRequest(forward) ==
  \E interval \in Intervals, ok \in BOOLEAN, pixmap \in Pixmaps,
     predicted \in Predictions :
    IF forward THEN next_frame(interval, ok, pixmap, predicted)
    ELSE previous_frame(interval, ok, pixmap, predicted)

\* C39: a next-frame request at the last frame, and a previous-frame request
\* at the first frame, emit no frame_loaded signal in any of the three
\* navigation modes, so set_image is not called and the boxes on the canvas
\* are kept
C39_BoundaryNavigationSilent ==
  [][((AtLastFrame /\ NavigationRequest(TRUE))
      \/ (AtFirstFrame /\ NavigationRequest(FALSE)))
     => /\ frame_loaded' = frame_loaded
        /\ boxes' = boxes
        /\ base_pixmap' = base_pixmap
        /\ current_frame_index' = current_frame_index]_vars

====
